---- MODULE Spec2Model ----
(***************************************************************************)
(* A model of opencode-claw's streaming prompt engine (promptStreaming)    *)
(* and of the channel router (createRouter / routeMessage / handleCommand).*)
(*                                                                         *)
(* Two specifications share this module:                                   *)
(*   TurnSpec  one complete turn of routeMessage: the router's progress    *)
(*             callbacks around one run of promptStreaming, with a clock,  *)
(*             the timeout timer, the heartbeat interval and the question  *)
(*             timer;                                                      *)
(*   Spec      the router with several inbound messages in flight at once  *)
(*             (handler, routeMessage, handleCommand), each turn's engine  *)
(*             reduced to the calls it makes into the router.              *)
(* Time is counted in model units: one unit stands for a fixed number of   *)
(* milliseconds, and the configured durations are scaled to it.            *)
(***************************************************************************)
EXTENDS Integers, Sequences, FiniteSets, Bags, TLC

\* ---------------------------------------------------------------- bounds
\* Date.now() when the run starts (far above any configured duration).
Epoch == 10
\* Clock horizon of a turn, counted from Epoch.
MaxTime == 5
\* deps.timeoutMs, progress.heartbeatMs and progress.toolThrottleMs, scaled.
TimeoutMs == 4
HeartbeatMs == 2
ToolThrottleMs == 2
\* Questions asked and todo lists updated in one run.
MaxQuestions == 1
MaxTodos == 1
\* Longest text a part may accumulate.
MaxTextLen == 2

\* ------------------------------------------------------------- constants
Target == "ses_target"
Other == "ses_other"
NoSession == "undefined"
NoTimer == -1
None == "none"
\* pendingQuestions has no record for the peer key.
NoPending == [qid |-> 0, due |-> NoTimer]

CallIds == {"call1", "call2"}
PartIds == {"prt1", "prt2"}
Letters == {"a", "b"}
Answers == {<<"y">>, <<"/", "c">>}
\* reject(new Error("question_timeout"))
QuestionTimeoutError == <<"question_timeout">>

\* The tool name a call identifier belongs to (part.tool / part.state.title).
ToolTitle(c) == IF c = "call1" THEN "read_file" ELSE "web-search"

\* ------------------------------------------------------------- variables
VARIABLES
    now,                \* Date.now()
    epc,                \* position of the turn (routeMessage + promptStreaming)
    outcome,            \* how promptStreaming ended: none, ok, timeout, aborted, error
    progressOn,         \* config.router.progress.enabled
    aborted,            \* controller.signal.aborted
    timer,              \* due time of the timeout timer, NoTimer when not armed
    heartbeatTimer,     \* next due time of the heartbeat interval, or NoTimer
    textParts,          \* Map partID -> text, as a sequence in insertion order
    notifiedTools,      \* Set of call ids already notified
    lastToolNotifyTime,
    lastActivityTime,
    streamState,        \* none, open, closed: the event subscription
    promptFired,        \* session.promptAsync has been called
    turnActive,         \* activeStreams has the peer key
    turnLastTool,       \* activeStreamsMeta.get(pk).lastTool
    turnPending,        \* pendingQuestions.get(pk): [qid, due] or NoPending
    typing,             \* typing indicator: off, on, failed, stopped, stopFailed
    curQuestion,        \* id of the question the engine is suspended on
    curAnswer,          \* what waitForUserReply settled with: the raw reply, or the error
    qCalls,             \* client.question.reply / reject calls made
    sent,               \* adapter.send calls made: a bag of <<kind, text>>
    startTime,          \* history: Date.now() when the timers were armed
    endTime,            \* history: Date.now() when promptStreaming ended
    toolLog,            \* history: <<callID, time>> of every onToolRunning call
    hbLog,              \* history: <<time, silence>> of every onHeartbeat call
    lastQual,           \* history: time of the last completed activity or heartbeat
    foreignAfter        \* history: a foreign event ended the run

turnVars == <<now, epc, outcome, progressOn, aborted, timer, heartbeatTimer,
              textParts, notifiedTools, lastToolNotifyTime, lastActivityTime,
              streamState, promptFired, turnActive, turnLastTool, turnPending,
              typing, curQuestion, curAnswer, qCalls, sent, startTime, endTime, toolLog, hbLog, lastQual, foreignAfter>>

VARIABLES
    nMsgs,              \* inbound messages handed to the handler so far
    turns,              \* the routeMessage calls that reached the prompt path
    sessionMap,         \* SessionManager's map: conversation key -> session id
    nCreated,           \* sessions the agent runtime has created
    activeStreams,      \* Map peer key -> session id (with the turn that set it)
    activeStreamsMeta,  \* Map peer key -> { lastTool }
    pendingQuestions,   \* Map peer key -> { resolve, timeout }
    qTimers,            \* armed waitForUserReply timers, named by their turn
    outbox,             \* adapter.send calls: a bag of <<peer key, kind>>
    abortCalls,         \* client.session.abort calls: the session ids
    allowCfg,           \* the channels' allowlist
    rejectCfg           \* the channels' rejectionBehavior

routerVars == <<nMsgs, turns, sessionMap, nCreated, activeStreams,
                activeStreamsMeta, pendingQuestions, qTimers, outbox,
                abortCalls, allowCfg, rejectCfg>>

\* The pure functions of the router are looked at one application at a time:
\* the arguments of the application, and what it returned.
VARIABLES
    fnIn,               \* the function applied and its arguments
    fnOut               \* what it returned

fnVars == <<fnIn, fnOut>>

\* The session manager's file, the cron scheduler, the outbox drainer, the
\* WhatsApp adapter's debounce and the handler's promise.
VARIABLES
    persistFile,        \* the persisted session map: key -> session id
    persistWrites,      \* the writes of the file under way: their contents
    cronRunning,        \* the scheduler's `running` set of job ids
    cronExecs,          \* the executeJob calls: job and place
    obFile,             \* the outbox entry's file: where it is, its attempts
    obDrains,           \* the drain calls: place and the entry as read
    obSends,            \* the deliveries attempted: whether each succeeded
    waNow,              \* the clock of the WhatsApp adapter
    waPending,          \* its debounce map: peer -> texts and timer
    waReceived,         \* the texts it received: peer, text, time
    waFlushed,          \* the batches it flushed: peer, texts, time, message
    hCalls              \* the handler calls: how they went and settled

sysVars == <<persistFile, persistWrites, cronRunning, cronExecs, obFile,
             obDrains, obSends, waNow, waPending, waReceived, waFlushed,
             hCalls>>

sideVars == <<fnVars, sysVars>>

vars == <<turnVars, routerVars, fnVars, sysVars>>

\* --------------------------------------------------------------- helpers
RECURSIVE Join(_)
\* [...textParts.values()].join("")
Join(parts) ==
    IF parts = <<>> THEN <<>> ELSE Head(parts).text \o Join(Tail(parts))

HasPart(parts, id) == \E i \in 1..Len(parts) : parts[i].id = id

GetPart(parts, id) ==
    IF HasPart(parts, id)
    THEN (CHOOSE i \in 1..Len(parts) : parts[i].id = id)
    ELSE 0

\* Map.set: an existing key keeps its place, a new key goes last.
SetPart(parts, id, text) ==
    IF HasPart(parts, id)
    THEN [parts EXCEPT ![GetPart(parts, id)].text = text]
    ELSE Append(parts, [id |-> id, text |-> text])

\* textParts.get(partID) ?? ""
PartText(parts, id) ==
    IF HasPart(parts, id) THEN parts[GetPart(parts, id)].text ELSE <<>>

\* adapter.send: `sent` is the bag of the calls made, each <<kind, text>>.
Send(kind, text) == sent' = sent (+) SetToBag({<<kind, text>>})

RECURSIVE SumCopies(_, _)
SumCopies(bag, S) ==
    IF S = {} THEN 0
    ELSE LET e == CHOOSE x \in S : TRUE
         IN CopiesIn(e, bag) + SumCopies(bag, S \ {e})

\* How many sends of a kind were made.
SentOf(kind) == SumCopies(sent, {e \in BagToSet(sent) : e[1] = kind})

\* ----------------------------------------------------- router: the data
\* Texts are sequences of one-character strings.
Absent == <<>>
NoThread == ""
NoSender == ""
NoOwner == 0
NoMeta == [startedAt |-> 0, lastTool |-> None]

\* The peers inbound messages come from: a WhatsApp chat (no sender
\* id, no thread) and a Slack channel thread written to by user u2.
Peers ==
    { [channel |-> "whatsapp", peerId |-> "u1", senderId |-> NoSender,
       threadId |-> NoThread],
      [channel |-> "slack", peerId |-> "c1", senderId |-> "u2",
       threadId |-> "t1"] }

\* The texts of inbound messages: a plain prompt, three commands and a
\* command the router does not know.
T_hi == <<"h", "i">>
T_cancel == <<"/", "c", "a", "n", "c", "e", "l">>
T_new == <<" ", "/", "N", "e", "w">>
T_switch == <<"/", "s", "w", "i", "t", "c", "h", " ", "x">>
T_unknown == <<"/", "x">>
MsgTexts == {T_hi, T_cancel, T_new, T_switch, T_unknown}

Inbound ==
    { [channel |-> p.channel, peerId |-> p.peerId, senderId |-> p.senderId,
       threadId |-> p.threadId, text |-> t] : p \in Peers, t \in MsgTexts }

\* The channels' allowlist and rejectionBehavior the router may run under:
\* open to everyone; private to u1, Slack answering the others; private to
\* u2 and silent.
Configs ==
    { [allow |-> [c \in {"whatsapp", "slack"} |-> {}],
       reject |-> [c \in {"whatsapp", "slack"} |-> "ignore"]],
      [allow |-> [c \in {"whatsapp", "slack"} |-> {"u1"}],
       reject |-> [c \in {"whatsapp", "slack"} |->
                      IF c = "slack" THEN "reject" ELSE "ignore"]],
      [allow |-> [c \in {"whatsapp", "slack"} |-> {"u2"}],
       reject |-> [c \in {"whatsapp", "slack"} |-> "ignore"]] }

\* `${channel}:${peerId}`
peerKey(channel, peerId) == <<channel, peerId>>

\* The characters of the ids the messages carry.
Chars(id) ==
    CASE id = "whatsapp" -> <<"w", "h", "a", "t", "s", "a", "p", "p">>
      [] id = "slack" -> <<"s", "l", "a", "c", "k">>
      [] id = "u1" -> <<"u", "1">>
      [] id = "c1" -> <<"c", "1">>
      [] id = "t1" -> <<"t", "1">>
      [] OTHER -> <<>>

KeyPrefix ==
    <<"o", "p", "e", "n", "c", "o", "d", "e", "-", "c", "l", "a", "w">>
ThreadWord == <<"t", "h", "r", "e", "a", "d">>

\* A variant of buildSessionKey that leaves the channel out of the key.
buildSessionKeyNoChannel(channel, peerId, threadId) ==
    LET base == KeyPrefix \o <<":">> \o peerId
    IN IF threadId /= <<>>
       THEN base \o <<":">> \o ThreadWord \o <<":">> \o threadId
       ELSE base

\* `opencode-claw:${channel}:${peerId}`, with `:thread:${threadId}` appended
\* when a thread id is given and is not the empty string. The arguments and
\* the key are sequences of characters.
buildSessionKey(channel, peerId, threadId) ==
    LET base == KeyPrefix \o <<":">> \o channel \o <<":">> \o peerId
    IN IF threadId /= <<>>
       THEN base \o <<":">> \o ThreadWord \o <<":">> \o threadId
       ELSE base

\* const sessionThreadId = msg.channel === "slack" ? undefined : msg.threadId
SessionKeyOf(msg) ==
    buildSessionKey(Chars(msg.channel), Chars(msg.peerId),
                    IF msg.channel = "slack" THEN <<>> ELSE Chars(msg.threadId))

PeerKeys == {peerKey(p.channel, p.peerId) : p \in Peers}
SessionKeys == {SessionKeyOf(p) : p \in Peers}

\* The id the agent runtime gives the n-th session it creates.
Digits == <<"1", "2", "3", "4">>
SesId(n) == <<"s", Digits[n]>>

\* The router's maps right after createRouter, under a configuration.
RouterInit(cfg) ==
    /\ nMsgs = 0
    /\ turns = <<>>
    /\ sessionMap = [k \in SessionKeys |-> Absent]
    /\ nCreated = 0
    /\ activeStreams = [k \in PeerKeys |-> Absent]
    /\ activeStreamsMeta = [k \in PeerKeys |-> NoMeta]
    /\ pendingQuestions = [k \in PeerKeys |-> NoOwner]
    /\ qTimers = {}
    /\ outbox = EmptyBag
    /\ abortCalls = <<>>
    /\ allowCfg = cfg.allow
    /\ rejectCfg = cfg.reject

\* No pure function is being applied.
NoFn == [fn |-> "none"]
FnIdle == fnIn = NoFn /\ fnOut = NoFn

\* The session map file is not there, no write is under way.
PersistIdle ==
    /\ persistFile = [k \in SessionKeys |-> Absent]
    /\ persistWrites = {}

\* No cron job is running.
CronIdle == cronRunning = {} /\ cronExecs = <<>>

\* The outbox holds one entry, never tried, and no drain is under way.
OutboxIdle ==
    /\ obFile = [pending |-> TRUE, dead |-> FALSE, attempts |-> 0]
    /\ obDrains = <<>>
    /\ obSends = <<>>

\* The WhatsApp adapter has received nothing.
WaIdle ==
    /\ waNow = 0
    /\ waPending = [p \in {"u1", "u3"} |-> <<>>]
    /\ waReceived = <<>>
    /\ waFlushed = <<>>

\* The handler has not been called.
HandlerIdle == hCalls = <<>>

SysIdle == PersistIdle /\ CronIdle /\ OutboxIdle /\ WaIdle /\ HandlerIdle

\* The router's own state while a single turn is looked at.
RouterIdle ==
    RouterInit([allow |-> [c \in {"whatsapp", "slack"} |-> {}],
                reject |-> [c \in {"whatsapp", "slack"} |-> "ignore"]])

\* ------------------------------------------------------------ TurnSpec
TurnStart ==
    /\ now = Epoch
    /\ epc = "route"
    /\ outcome = None
    /\ aborted = FALSE
    /\ timer = NoTimer
    /\ heartbeatTimer = NoTimer
    /\ textParts = <<>>
    /\ notifiedTools = {}
    /\ lastToolNotifyTime = 0
    /\ lastActivityTime = 0
    /\ streamState = None
    /\ promptFired = FALSE
    /\ turnActive = FALSE
    /\ turnLastTool = None
    /\ turnPending = NoPending
    /\ typing = "off"
    /\ curQuestion = 0
    /\ curAnswer = <<>>
    /\ qCalls = <<>>
    /\ sent = EmptyBag
    /\ startTime = 0
    /\ endTime = 0
    /\ toolLog = <<>>
    /\ hbLog = <<>>
    /\ lastQual = 0
    /\ foreignAfter = FALSE

TurnInit ==
    /\ TurnStart
    /\ progressOn \in BOOLEAN
    /\ RouterIdle
    /\ FnIdle
    /\ SysIdle

\* Everything an event of the stream leaves alone when it only ends the run.
loopRest == <<now, progressOn, aborted, textParts, notifiedTools,
              lastToolNotifyTime, lastActivityTime, promptFired, turnActive,
              turnLastTool, turnPending, typing, curQuestion, curAnswer,
              qCalls, sent, startTime, toolLog, hbLog, lastQual>>

\* A variant of the exit that leaves the heartbeat interval armed.
ExitKeepsInterval(o) ==
    /\ epc' = "returned"
    /\ outcome' = o
    /\ timer' = NoTimer
    /\ heartbeatTimer' = heartbeatTimer
    /\ streamState' = "closed"
    /\ endTime' = now

\* The finally block: clearTimeout, clearInterval, stream.return.
Exit(o) ==
    /\ epc' = "returned"
    /\ outcome' = o
    /\ timer' = NoTimer
    /\ heartbeatTimer' = NoTimer
    /\ streamState' = "closed"
    /\ endTime' = now

\* The catch block: an error after the deadline, or Error("timeout"), is
\* rethrown as the timeout; any other error is rethrown as it is.
CaughtOutcome(err) == IF aborted \/ err = "timeout" THEN "timeout" ELSE err

Caught(err) == Exit(CaughtOutcome(err))

Continue == UNCHANGED <<epc, outcome, timer, heartbeatTimer, streamState, endTime>>

\* touchActivity()
TouchActivity == lastActivityTime' = now

\* The top of the loop body: the deadline is looked at when an event arrives.
DeadlineSeen == aborted

\* One iteration of `for await (const raw of stream)`.
OnEvent(s, body) ==
    /\ UNCHANGED <<routerVars, sideVars>>
    /\ epc = "loop"
    /\ streamState = "open"
    /\ IF DeadlineSeen
       THEN /\ Caught("timeout")
            /\ foreignAfter' = (foreignAfter \/ s = Other)
            /\ UNCHANGED loopRest
       ELSE /\ foreignAfter' = foreignAfter
            /\ body

\* routeMessage: the turn is recorded and the typing indicator started; a
\* failing sendTyping is discarded.
RouteStart(typOk) ==
    /\ UNCHANGED <<routerVars, sideVars>>
    /\ epc = "route"
    /\ turnActive' = TRUE
    /\ turnLastTool' = None
    /\ typing' = (IF typOk THEN "on" ELSE "failed")
    /\ epc' = "subscribe"
    /\ UNCHANGED <<now, outcome, progressOn, aborted, timer, heartbeatTimer,
                   textParts, notifiedTools, lastToolNotifyTime,
                   lastActivityTime, streamState, promptFired, turnPending,
                   curQuestion, curAnswer, qCalls, sent, startTime,
                   endTime, toolLog, hbLog, lastQual, foreignAfter>>

\* client.event.subscribe(), then the timers are armed.
Subscribe(ok) ==
    /\ UNCHANGED <<routerVars, sideVars>>
    /\ epc = "subscribe"
    /\ IF ok
       THEN /\ streamState' = "open"
            /\ timer' = now + TimeoutMs
            /\ lastActivityTime' = now
            /\ heartbeatTimer' = IF progressOn /\ HeartbeatMs > 0
                                 THEN now + HeartbeatMs ELSE NoTimer
            /\ startTime' = now
            /\ lastQual' = now
            /\ epc' = "fire"
            /\ UNCHANGED <<outcome, endTime>>
       ELSE /\ epc' = "returned"
            /\ outcome' = "error"
            /\ endTime' = now
            /\ UNCHANGED <<streamState, timer, lastActivityTime,
                           heartbeatTimer, startTime, lastQual>>
    /\ UNCHANGED <<now, progressOn, aborted, textParts, notifiedTools,
                   lastToolNotifyTime, promptFired, turnActive, turnLastTool,
                   turnPending, typing, curQuestion, curAnswer, qCalls, sent,
                   toolLog, hbLog, foreignAfter>>

\* Mutant of FirePrompt: the prompt is fired before subscribing.
FirePromptBeforeSubscribe ==
    /\ UNCHANGED <<routerVars, sideVars>>
    /\ epc = "subscribe"
    /\ ~promptFired
    /\ promptFired' = TRUE
    /\ UNCHANGED <<now, epc, outcome, progressOn, aborted, timer,
                   heartbeatTimer, textParts, notifiedTools,
                   lastToolNotifyTime, lastActivityTime, streamState,
                   turnActive, turnLastTool, turnPending, typing, curQuestion,
                   curAnswer, qCalls, sent, startTime, endTime, toolLog,
                   hbLog, lastQual, foreignAfter>>

\* client.session.promptAsync is called ...
FirePrompt ==
    /\ UNCHANGED <<routerVars, sideVars>>
    /\ epc = "fire"
    /\ promptFired' = TRUE
    /\ epc' = "firing"
    /\ UNCHANGED <<now, outcome, progressOn, aborted, timer, heartbeatTimer,
                   textParts, notifiedTools, lastToolNotifyTime,
                   lastActivityTime, streamState, turnActive, turnLastTool,
                   turnPending, typing, curQuestion, curAnswer, qCalls, sent,
                   startTime, endTime, toolLog, hbLog, lastQual,
                   foreignAfter>>

\* ... and returns or throws.
PromptReturned(ok) ==
    /\ UNCHANGED <<routerVars, sideVars>>
    /\ epc = "firing"
    /\ IF ok
       THEN epc' = "loop" /\ UNCHANGED <<outcome, timer, heartbeatTimer,
                                         streamState, endTime>>
       ELSE Caught("error")
    /\ UNCHANGED <<loopRest, foreignAfter>>

\* message.part.delta
EvDelta(s, p, d) ==
    /\ s = Target => Len(PartText(textParts, p)) + Len(d) <= MaxTextLen
    /\ OnEvent(s,
         /\ textParts' = IF s /= Target THEN textParts
                         ELSE SetPart(textParts, p, PartText(textParts, p) \o d)
         /\ Continue
         /\ UNCHANGED <<now, progressOn, aborted, notifiedTools,
                        lastToolNotifyTime, lastActivityTime, promptFired,
                        turnActive, turnLastTool, turnPending, typing,
                        curQuestion, curAnswer, qCalls, sent, startTime,
                        toolLog, hbLog, lastQual>>)

\* message.part.updated with a text part
EvTextPart(s, p, txt) ==
    OnEvent(s,
      /\ textParts' = IF s = Target /\ txt /= <<>>
                      THEN SetPart(textParts, p, txt) ELSE textParts
      /\ Continue
      /\ UNCHANGED <<now, progressOn, aborted, notifiedTools,
                     lastToolNotifyTime, lastActivityTime, promptFired,
                     turnActive, turnLastTool, turnPending, typing,
                     curQuestion, curAnswer, qCalls, sent, startTime,
                     toolLog, hbLog, lastQual>>)

\* Mutant of ToolNotifyDue: the throttle window is not looked at.
ToolNotifyUnthrottled(c) == c \notin notifiedTools

\* The dedup and throttle test of a running tool part.
ToolNotifyDue(c) ==
    /\ c \notin notifiedTools
    /\ now - lastToolNotifyTime >= ToolThrottleMs

\* A variant of the tool part's handling that marks a call dropped by the
\* throttle as notified.
EvToolPartMarksDropped(s, c, status) ==
    OnEvent(s,
      IF s = Target /\ status = "running" /\ progressOn /\ ToolNotifyDue(c)
      THEN /\ notifiedTools' = notifiedTools \cup {c}
           /\ lastToolNotifyTime' = now
           /\ turnLastTool' = IF turnActive THEN ToolTitle(c) ELSE turnLastTool
           /\ Send("tool", <<>>)
           /\ toolLog' = Append(toolLog, <<c, now>>)
           /\ epc' = "awaitTool"
           /\ UNCHANGED <<outcome, timer, heartbeatTimer, streamState, endTime>>
           /\ UNCHANGED <<now, progressOn, aborted, textParts,
                          lastActivityTime, promptFired, turnActive,
                          turnPending, typing, curQuestion, curAnswer, qCalls,
                          startTime, hbLog, lastQual>>
      ELSE /\ Continue
           /\ notifiedTools' = IF s = Target /\ status = "running" /\ progressOn
                               THEN notifiedTools \cup {c} ELSE notifiedTools
           /\ UNCHANGED <<now, progressOn, aborted, textParts,
                          lastToolNotifyTime, lastActivityTime, promptFired,
                          turnActive, turnLastTool, turnPending, typing,
                          curQuestion, curAnswer, qCalls, sent, startTime,
                          toolLog, hbLog, lastQual>>)

\* message.part.updated with a tool part; onToolRunning is the router's
\* callback: it records the last tool and sends the tool message.
EvToolPart(s, c, status) ==
    OnEvent(s,
      IF s = Target /\ status = "running" /\ progressOn /\ ToolNotifyDue(c)
      THEN /\ notifiedTools' = notifiedTools \cup {c}
           /\ lastToolNotifyTime' = now
           /\ turnLastTool' = IF turnActive THEN ToolTitle(c) ELSE turnLastTool
           /\ Send("tool", <<>>)
           /\ toolLog' = Append(toolLog, <<c, now>>)
           /\ epc' = "awaitTool"
           /\ UNCHANGED <<outcome, timer, heartbeatTimer, streamState, endTime>>
           /\ UNCHANGED <<now, progressOn, aborted, textParts,
                          lastActivityTime, promptFired, turnActive,
                          turnPending, typing, curQuestion, curAnswer, qCalls,
                          startTime, hbLog, lastQual>>
      ELSE /\ Continue
           /\ UNCHANGED loopRest)

\* A variant in which a failed onToolRunning is not discarded but thrown.
ToolDoneThrowing(ok) ==
    /\ UNCHANGED <<routerVars, sideVars>>
    /\ epc = "awaitTool"
    /\ IF ok
       THEN /\ epc' = "loop"
            /\ TouchActivity
            /\ lastQual' = now
            /\ UNCHANGED <<outcome, timer, heartbeatTimer, streamState, endTime>>
       ELSE /\ Caught("error")
            /\ UNCHANGED <<lastActivityTime, lastQual>>
    /\ UNCHANGED <<now, progressOn, aborted, textParts, notifiedTools,
                   lastToolNotifyTime, promptFired, turnActive, turnLastTool,
                   turnPending, typing, curQuestion, curAnswer, qCalls, sent,
                   startTime, toolLog, hbLog, foreignAfter>>

\* onToolRunning has settled (its failure is discarded): touchActivity().
ToolDone(ok) ==
    /\ UNCHANGED <<routerVars, sideVars>>
    /\ epc = "awaitTool"
    /\ epc' = "loop"
    /\ TouchActivity
    /\ lastQual' = now
    /\ UNCHANGED <<now, outcome, progressOn, aborted, timer, heartbeatTimer,
                   textParts, notifiedTools, lastToolNotifyTime, streamState,
                   promptFired, turnActive, turnLastTool, turnPending, typing,
                   curQuestion, curAnswer, qCalls, sent, startTime,
                   endTime, toolLog, hbLog, foreignAfter>>

\* A variant of the rejection that makes no call to the agent runtime.
RejectQuestionSkipped(qid, rejOk) ==
    /\ qCalls' = qCalls
    /\ IF rejOk
       THEN epc' = "loop" /\ UNCHANGED <<outcome, timer, heartbeatTimer,
                                         streamState, endTime>>
       ELSE Caught("error")

\* client.question.reject({ requestID }): the run goes on when the call
\* returns, and leaves the loop with the call's error when it throws.
RejectQuestion(qid, rejOk) ==
    /\ qCalls' = Append(qCalls, <<"reject", qid, <<>>>>)
    /\ IF rejOk
       THEN epc' = "loop" /\ UNCHANGED <<outcome, timer, heartbeatTimer,
                                         streamState, endTime>>
       ELSE Caught("error")

\* question.asked: onQuestion sends the formatted question (router), or the
\* question is rejected at once when there is no onQuestion.
EvQuestion(s, rejOk) ==
    /\ curQuestion < MaxQuestions
    /\ OnEvent(s,
      IF s /= Target
      THEN Continue /\ UNCHANGED loopRest
      ELSE /\ curQuestion' = curQuestion + 1
           /\ IF progressOn
              THEN /\ Send("question", <<>>)
                   /\ epc' = "askQuestion"
                   /\ UNCHANGED <<outcome, timer, heartbeatTimer, streamState,
                                  endTime, qCalls>>
              ELSE /\ RejectQuestion(curQuestion + 1, rejOk)
                   /\ UNCHANGED sent
           /\ curAnswer' = <<>>
           /\ UNCHANGED <<now, progressOn, aborted, textParts, notifiedTools,
                          lastToolNotifyTime, lastActivityTime, promptFired,
                          turnActive, turnLastTool, turnPending, typing,
                          startTime, toolLog, hbLog, lastQual>>)

\* The question's adapter.send has settled: waitForUserReply arms the
\* question timer and records the resolver; a failed send makes onQuestion
\* throw, and the engine rejects the question.
QuestionSent(ok, rejOk) ==
    /\ UNCHANGED <<routerVars, sideVars>>
    /\ epc = "askQuestion"
    /\ IF ok
       THEN /\ turnPending' = [qid |-> curQuestion, due |-> now + TimeoutMs]
            /\ epc' = "awaitAnswer"
            /\ UNCHANGED <<outcome, timer, heartbeatTimer, streamState,
                           endTime, qCalls>>
       ELSE /\ RejectQuestion(curQuestion, rejOk)
            /\ UNCHANGED turnPending
    /\ UNCHANGED <<now, progressOn, aborted, textParts, notifiedTools,
                   lastToolNotifyTime, lastActivityTime, promptFired,
                   turnActive, turnLastTool, typing, curQuestion, curAnswer,
                   sent, startTime, toolLog, hbLog, lastQual,
                   foreignAfter>>

\* handler: the peer's next inbound message resolves the pending question.
Answer(text) ==
    /\ UNCHANGED <<routerVars, sideVars>>
    /\ turnPending /= NoPending
    /\ turnPending' = NoPending
    /\ curAnswer' = text
    /\ epc' = "reply"
    /\ UNCHANGED <<now, outcome, progressOn, aborted, timer, heartbeatTimer,
                   textParts, notifiedTools, lastToolNotifyTime,
                   lastActivityTime, streamState, promptFired, turnActive,
                   turnLastTool, typing, curQuestion, qCalls, sent, startTime, endTime, toolLog, hbLog, lastQual, foreignAfter>>

\* onQuestion returned: client.question.reply, then touchActivity(); a
\* throwing reply is caught and followed by a reject call.
QuestionReply(ok, rejOk) ==
    /\ UNCHANGED <<routerVars, sideVars>>
    /\ epc = "reply"
    /\ IF ok
       THEN /\ qCalls' = Append(qCalls, <<"reply", curQuestion, curAnswer>>)
            /\ TouchActivity
            /\ lastQual' = now
            /\ epc' = "loop"
            /\ UNCHANGED <<outcome, timer, heartbeatTimer, streamState, endTime>>
       ELSE /\ qCalls' = qCalls \o <<<<"reply", curQuestion, curAnswer>>,
                                     <<"reject", curQuestion, <<>>>>>>
            /\ IF rejOk
               THEN epc' = "loop" /\ UNCHANGED <<outcome, timer, heartbeatTimer,
                                                 streamState, endTime>>
               ELSE Caught("error")
            /\ UNCHANGED <<lastActivityTime, lastQual>>
    /\ UNCHANGED <<now, progressOn, aborted, textParts, notifiedTools,
                   lastToolNotifyTime, promptFired, turnActive, turnLastTool,
                   turnPending, typing, curQuestion, curAnswer, sent, startTime, toolLog, hbLog, foreignAfter>>

\* A variant of the question timer that ends the run as timed out instead
\* of rejecting the question.
QuestionTimeoutEndsTurn(rejOk) ==
    /\ UNCHANGED <<routerVars, sideVars>>
    /\ turnPending /= NoPending
    /\ now >= turnPending.due
    /\ turnPending' = NoPending
    /\ curAnswer' = QuestionTimeoutError
    /\ Caught("timeout")
    /\ UNCHANGED <<now, progressOn, aborted, textParts, notifiedTools,
                   lastToolNotifyTime, lastActivityTime, promptFired,
                   turnActive, turnLastTool, typing, curQuestion, qCalls,
                   sent, startTime, toolLog, hbLog, lastQual,
                   foreignAfter>>

\* waitForUserReply's timer: the record is deleted and the wait rejected;
\* the engine catches that and rejects the question.
QuestionTimeout(rejOk) ==
    /\ UNCHANGED <<routerVars, sideVars>>
    /\ turnPending /= NoPending
    /\ now >= turnPending.due
    /\ turnPending' = NoPending
    /\ curAnswer' = QuestionTimeoutError
    /\ RejectQuestion(curQuestion, rejOk)
    /\ UNCHANGED <<now, progressOn, aborted, textParts, notifiedTools,
                   lastToolNotifyTime, lastActivityTime, promptFired,
                   turnActive, turnLastTool, typing, curQuestion,
                   sent, startTime, toolLog, hbLog, lastQual,
                   foreignAfter>>

\* todo.updated: onTodoUpdated sends the formatted list (router).
EvTodo(s) ==
    /\ SentOf("todo") < MaxTodos
    /\ OnEvent(s,
      IF s = Target /\ progressOn
      THEN /\ Send("todo", <<>>)
           /\ epc' = "awaitTodo"
           /\ UNCHANGED <<outcome, timer, heartbeatTimer, streamState, endTime>>
           /\ UNCHANGED <<now, progressOn, aborted, textParts, notifiedTools,
                          lastToolNotifyTime, lastActivityTime, promptFired,
                          turnActive, turnLastTool, turnPending, typing,
                          curQuestion, curAnswer, qCalls, startTime, toolLog,
                          hbLog, lastQual>>
      ELSE Continue /\ UNCHANGED loopRest)

\* onTodoUpdated has settled (its failure is discarded): touchActivity().
TodoDone(ok) ==
    /\ UNCHANGED <<routerVars, sideVars>>
    /\ epc = "awaitTodo"
    /\ epc' = "loop"
    /\ TouchActivity
    /\ lastQual' = now
    /\ UNCHANGED <<now, outcome, progressOn, aborted, timer, heartbeatTimer,
                   textParts, notifiedTools, lastToolNotifyTime, streamState,
                   promptFired, turnActive, turnLastTool, turnPending, typing,
                   curQuestion, curAnswer, qCalls, sent, startTime,
                   endTime, toolLog, hbLog, foreignAfter>>

\* The messages a thrown error may carry: any other text, and the two texts
\* the catch blocks compare err.message with.
ErrMsgs == {"error", "aborted", "timeout"}
ErrNames == {"MessageAbortedError", "APIError"}

\* session.error: `if (sessionID && sessionID !== sessionId) continue`; the
\* error thrown is Error("aborted") for a MessageAbortedError and
\* Error(error.data.message) otherwise.
EvError(s, name, msg) ==
    OnEvent(s,
      /\ IF s = Other
         THEN Continue
         ELSE Caught(IF name = "MessageAbortedError" THEN "aborted" ELSE msg)
      /\ UNCHANGED loopRest)

\* session.idle
EvIdle(s) ==
    OnEvent(s,
      /\ IF s = Target THEN Exit("ok") ELSE Continue
      /\ UNCHANGED loopRest)

\* A variant of the end of the stream that looks at the deadline first.
StreamEndChecksDeadline ==
    /\ UNCHANGED <<routerVars, sideVars>>
    /\ epc = "loop"
    /\ streamState = "open"
    /\ IF aborted THEN Caught("timeout") ELSE Exit("ok")
    /\ UNCHANGED <<loopRest, foreignAfter>>

\* The iterator completes: the loop ends as after a break.
StreamEnd ==
    /\ UNCHANGED <<routerVars, sideVars>>
    /\ epc = "loop"
    /\ streamState = "open"
    /\ Exit("ok")
    /\ UNCHANGED <<loopRest, foreignAfter>>

\* setTimeout(() => controller.abort(), timeoutMs)
TimeoutFire ==
    /\ UNCHANGED <<routerVars, sideVars>>
    /\ timer /= NoTimer
    /\ now >= timer
    /\ aborted' = TRUE
    /\ timer' = NoTimer
    /\ UNCHANGED <<now, epc, outcome, progressOn, heartbeatTimer, textParts,
                   notifiedTools, lastToolNotifyTime, lastActivityTime,
                   streamState, promptFired, turnActive, turnLastTool,
                   turnPending, typing, curQuestion, curAnswer, qCalls, sent,
                   startTime, endTime, toolLog, hbLog, lastQual,
                   foreignAfter>>

\* Mutants of HeartbeatDue: every tick fires; a tick fires only when the
\* silence has exceeded heartbeatMs.
HeartbeatEveryTick == TRUE

HeartbeatDueStrict == now - lastActivityTime > HeartbeatMs

\* The interval's test: has the silence reached heartbeatMs?
HeartbeatDue == now - lastActivityTime >= HeartbeatMs

\* One tick of the heartbeat interval; onHeartbeat is the router's callback
\* (typing refresh and the still-working message), whose failure is
\* discarded.
HeartbeatTick(ok) ==
    /\ UNCHANGED <<routerVars, sideVars>>
    /\ heartbeatTimer /= NoTimer
    /\ now >= heartbeatTimer
    /\ heartbeatTimer' = heartbeatTimer + HeartbeatMs
    /\ IF HeartbeatDue
       THEN /\ Send("heartbeat", <<>>)
            /\ typing' = (IF ok THEN "on" ELSE typing)
            /\ lastActivityTime' = now
            /\ hbLog' = Append(hbLog, <<now, now - lastQual>>)
            /\ lastQual' = now
       ELSE UNCHANGED <<sent, typing, lastActivityTime, hbLog, lastQual>>
    /\ UNCHANGED <<now, epc, outcome, progressOn, aborted, timer, textParts,
                   notifiedTools, lastToolNotifyTime, streamState, promptFired,
                   turnActive, turnLastTool, turnPending, curQuestion,
                   curAnswer, qCalls, startTime, endTime, toolLog,
                   foreignAfter>>

\* A timer that is due runs before the clock moves on.
TimerDue ==
    \/ timer /= NoTimer /\ now >= timer
    \/ heartbeatTimer /= NoTimer /\ now >= heartbeatTimer
    \/ turnPending /= NoPending /\ now >= turnPending.due

Running == epc \in {"fire", "firing", "loop", "awaitTool", "askQuestion",
                    "awaitAnswer", "reply", "awaitTodo"}

Tick ==
    /\ UNCHANGED <<routerVars, sideVars>>
    /\ Running
    /\ now < Epoch + MaxTime
    /\ ~TimerDue
    /\ now' = now + 1
    /\ UNCHANGED <<epc, outcome, progressOn, aborted, timer, heartbeatTimer,
                   textParts, notifiedTools, lastToolNotifyTime,
                   lastActivityTime, streamState, promptFired, turnActive,
                   turnLastTool, turnPending, typing, curQuestion, curAnswer,
                   qCalls, sent, startTime, endTime, toolLog, hbLog,
                   lastQual, foreignAfter>>

\* Mutant of FinalSend: the reply is sent without the empty-response test,
\* and the early return of the empty case is missing.
FinalSendNoReturn(o, reply) ==
    CASE o = "timeout" -> {<<"timeout", <<>>>>}
      [] o = "aborted" -> {}
      [] o = "error" -> {<<"internal", <<>>>>}
      [] OTHER -> IF reply = <<>>
                  THEN {<<"empty", <<>>>>, <<"final", reply>>}
                  ELSE {<<"final", reply>>}

\* What routeMessage sends once promptStreaming has settled: the timeout
\* notice, nothing after an abort, the handler's generic error reply for any
\* other error, and on success the reply or the empty-response placeholder.
FinalSend(o, reply) ==
    CASE o = "timeout" -> {<<"timeout", <<>>>>}
      [] o = "aborted" -> {}
      [] o = "error" -> {<<"internal", <<>>>>}
      [] OTHER -> IF reply = <<>> THEN {<<"empty", <<>>>>}
                  ELSE {<<"final", reply>>}

\* A variant of the end of routeMessage whose cleanup follows the try block
\* instead of standing in its finally: it runs after a success only.
RouterFinishNoFinally(sendOk, stopOk) ==
    /\ UNCHANGED <<routerVars, sideVars>>
    /\ epc = "returned"
    /\ epc' = "done"
    /\ turnActive' = (IF outcome = "ok" THEN FALSE ELSE turnActive)
    /\ turnLastTool' = (IF outcome = "ok" THEN None ELSE turnLastTool)
    /\ turnPending' = NoPending
    /\ typing' = (IF outcome /= "ok" THEN typing
                   ELSE IF stopOk THEN "stopped" ELSE "stopFailed")
    /\ sendOk \/ outcome \in {"ok", "timeout"}
    /\ sent' = sent (+) SetToBag(FinalSend(outcome, Join(textParts)))
                    (+) (IF sendOk THEN EmptyBag
                         ELSE SetToBag({<<"internal", <<>>>>}))
    /\ UNCHANGED <<now, outcome, progressOn, aborted, timer, heartbeatTimer,
                   textParts, notifiedTools, lastToolNotifyTime,
                   lastActivityTime, streamState, promptFired, curQuestion,
                   curAnswer, qCalls, startTime, endTime, toolLog,
                   hbLog, lastQual, foreignAfter>>

\* routeMessage after promptStreaming: catch, finally, the final send. A
\* final send that throws reaches the handler's catch, which sends the
\* generic error reply. A failing stopTyping is discarded.
RouterFinish(sendOk, stopOk) ==
    /\ UNCHANGED <<routerVars, sideVars>>
    /\ epc = "returned"
    /\ epc' = "done"
    /\ turnActive' = FALSE
    /\ turnLastTool' = None
    /\ turnPending' = NoPending
    /\ typing' = (IF stopOk THEN "stopped" ELSE "stopFailed")
    /\ sendOk \/ outcome \in {"ok", "timeout"}
    /\ sent' = sent (+) SetToBag(FinalSend(outcome, Join(textParts)))
                    (+) (IF sendOk THEN EmptyBag
                         ELSE SetToBag({<<"internal", <<>>>>}))
    /\ UNCHANGED <<now, outcome, progressOn, aborted, timer, heartbeatTimer,
                   textParts, notifiedTools, lastToolNotifyTime,
                   lastActivityTime, streamState, promptFired, curQuestion,
                   curAnswer, qCalls, startTime, endTime, toolLog,
                   hbLog, lastQual, foreignAfter>>

Sessions == {Target, Other}
Texts == {<<>>} \cup {<<l>> : l \in Letters}

TurnStep ==
    \/ \E typOk \in BOOLEAN : RouteStart(typOk)
    \/ \E ok \in BOOLEAN : Subscribe(ok)
    \/ FirePrompt
    \/ \E ok \in BOOLEAN : PromptReturned(ok)
    \/ \E s \in Sessions : EvDelta(s, "prt1", <<"a">>)
    \/ \E s \in Sessions, t \in {<<>>, <<"a">>} : EvTextPart(s, "prt1", t)
    \/ \E s \in Sessions, c \in CallIds, st \in {"running", "completed"} :
          EvToolPart(s, c, st)
    \/ \E ok \in BOOLEAN : ToolDone(ok)
    \/ \E s \in Sessions, rejOk \in BOOLEAN : EvQuestion(s, rejOk)
    \/ \E ok \in BOOLEAN, rejOk \in BOOLEAN : QuestionSent(ok, rejOk)
    \/ \E a \in Answers : Answer(a)
    \/ \E ok \in BOOLEAN, rejOk \in BOOLEAN : QuestionReply(ok, rejOk)
    \/ \E rejOk \in BOOLEAN : QuestionTimeout(rejOk)
    \/ \E s \in Sessions : EvTodo(s)
    \/ \E ok \in BOOLEAN : TodoDone(ok)
    \/ \E s \in Sessions \cup {NoSession},
          n \in ErrNames, m \in ErrMsgs : EvError(s, n, m)
    \/ \E s \in Sessions : EvIdle(s)
    \/ TimeoutFire
    \/ \E ok \in BOOLEAN : HeartbeatTick(ok)
    \/ Tick
    \/ \E sendOk \in BOOLEAN, stopOk \in BOOLEAN : RouterFinish(sendOk, stopOk)

TurnNext ==
    \/ TurnStep
    \/ StreamEnd

TurnSpec == TurnInit /\ [][TurnNext]_vars

\* The steps the program takes by itself: timers, the clock, settled calls.
\* The stream's events and the user's answer are the environment's.
TurnInternal ==
    \/ \E typOk \in BOOLEAN : RouteStart(typOk)
    \/ \E ok \in BOOLEAN : Subscribe(ok)
    \/ FirePrompt
    \/ \E ok \in BOOLEAN : PromptReturned(ok)
    \/ \E ok \in BOOLEAN : ToolDone(ok)
    \/ \E ok \in BOOLEAN, rejOk \in BOOLEAN : QuestionSent(ok, rejOk)
    \/ \E ok \in BOOLEAN, rejOk \in BOOLEAN : QuestionReply(ok, rejOk)
    \/ \E rejOk \in BOOLEAN : QuestionTimeout(rejOk)
    \/ \E ok \in BOOLEAN : TodoDone(ok)
    \/ TimeoutFire
    \/ \E ok \in BOOLEAN : HeartbeatTick(ok)
    \/ Tick
    \/ \E sendOk \in BOOLEAN, stopOk \in BOOLEAN : RouterFinish(sendOk, stopOk)

\* A turn whose event stream stays open, under the event loop's scheduling:
\* a due timer runs, the clock advances, a settled call resumes its awaiter.
\* Nothing obliges the stream to deliver an event.
TurnFairSpec ==
    /\ TurnInit
    /\ [][TurnStep]_vars
    /\ WF_vars(TurnInternal)

\* ------------------------------------------------------------ TextSpec
\* The text events of a run alone, over two parts and both letters: the
\* run is started, takes text events of either session and ends.
TextNext ==
    \/ RouteStart(TRUE)
    \/ Subscribe(TRUE)
    \/ FirePrompt
    \/ PromptReturned(TRUE)
    \/ \E s \in Sessions, p \in PartIds, l \in Letters : EvDelta(s, p, <<l>>)
    \/ \E s \in Sessions, p \in PartIds, t \in Texts : EvTextPart(s, p, t)
    \/ \E s \in Sessions : EvIdle(s)
    \/ StreamEnd
    \/ RouterFinish(TRUE, TRUE)

TextSpec == TurnInit /\ [][TextNext]_vars

\* ------------------------------------------------- router: the commands
RECURSIVE TrimStart(_)
TrimStart(s) ==
    IF s /= <<>> /\ Head(s) = " " THEN TrimStart(Tail(s)) ELSE s

RECURSIVE TrimEnd(_)
TrimEnd(s) ==
    IF s /= <<>> /\ s[Len(s)] = " "
    THEN TrimEnd(SubSeq(s, 1, Len(s) - 1))
    ELSE s

\* String.prototype.trim
Trim(s) == TrimEnd(TrimStart(s))

\* String.prototype.startsWith, for a one-character prefix
StartsWith(s, c) == Len(s) >= 1 /\ s[1] = c

\* String.prototype.indexOf: the 0-based place of the first c, or -1
IndexOf(s, c) ==
    IF \E i \in 1..Len(s) : s[i] = c
    THEN (CHOOSE i \in 1..Len(s) :
             s[i] = c /\ \A j \in 1..(i - 1) : s[j] /= c) - 1
    ELSE -1

\* String.prototype.slice(from, to), 0-based, to exclusive
Slice(s, from, to) == SubSeq(s, from + 1, to)

LowerOf(c) ==
    CASE c = "N" -> "n"
      [] c = "S" -> "s"
      [] c = "C" -> "c"
      [] OTHER -> c

\* String.prototype.toLowerCase
ToLowerCase(s) == [i \in 1..Len(s) |-> LowerOf(s[i])]

NoCommand == [isCmd |-> FALSE, name |-> <<>>, args |-> <<>>]

\* A variant of parseCommand that looks at the text as it came, blanks
\* included.
parseCommandUntrimmed(text) ==
    LET trimmed == text
        space == IndexOf(trimmed, " ")
    IN IF ~StartsWith(trimmed, "/") THEN NoCommand
       ELSE IF space = -1
       THEN [isCmd |-> TRUE,
             name |-> ToLowerCase(Slice(trimmed, 1, Len(trimmed))),
             args |-> <<>>]
       ELSE [isCmd |-> TRUE,
             name |-> ToLowerCase(Slice(trimmed, 1, space)),
             args |-> Trim(Slice(trimmed, space + 1, Len(trimmed)))]

parseCommand(text) ==
    LET trimmed == Trim(text)
        space == IndexOf(trimmed, " ")
    IN IF ~StartsWith(trimmed, "/") THEN NoCommand
       ELSE IF space = -1
       THEN [isCmd |-> TRUE,
             name |-> ToLowerCase(Slice(trimmed, 1, Len(trimmed))),
             args |-> <<>>]
       ELSE [isCmd |-> TRUE,
             name |-> ToLowerCase(Slice(trimmed, 1, space)),
             args |-> Trim(Slice(trimmed, space + 1, Len(trimmed)))]

N_new == <<"n", "e", "w">>
N_switch == <<"s", "w", "i", "t", "c", "h">>
N_sessions == <<"s", "e", "s", "s", "i", "o", "n", "s">>
N_current == <<"c", "u", "r", "r", "e", "n", "t">>
N_fork == <<"f", "o", "r", "k">>
N_cancel == <<"c", "a", "n", "c", "e", "l">>
N_status == <<"s", "t", "a", "t", "u", "s">>
N_help == <<"h", "e", "l", "p">>

\* A variant of checkAllowlist that lets every sender in.
checkAllowlistOpen(msg) == TRUE

\* checkAllowlist: no list, or an empty one, lets everyone in; otherwise the
\* sender (msg.senderId ?? msg.peerId) has to be on it.
checkAllowlist(msg) ==
    LET list == allowCfg[msg.channel]
        who == IF msg.senderId /= NoSender THEN msg.senderId ELSE msg.peerId
    IN list = {} \/ who \in list

\* A variant of /cancel's lookup that takes the session the conversation is
\* bound to.
cancelTargetOfBinding(msg) == sessionMap[SessionKeyOf(msg)]

\* const sessionId = activeStreams.get(pk), of the "cancel" case
cancelTarget(msg) == activeStreams[peerKey(msg.channel, msg.peerId)]

\* A variant of the test for a missing argument that never finds it missing.
missingArgsNever(cmd) == FALSE

\* !cmd.args
missingArgs(cmd) == cmd.args = <<>>

\* handleCommand: what the command does to the session map, the runtime's
\* sessions and the abort calls, and the reply it returns; ok is whether the
\* one call it makes to the agent runtime returns data. A reply of "throw"
\* is an exception leaving handleCommand.
handleCommand(cmd, msg, ok) ==
    LET key == SessionKeyOf(msg)
        pk == peerKey(msg.channel, msg.peerId)
        same == [map |-> sessionMap, created |-> nCreated,
                 aborts |-> abortCalls, reply |-> None]
    IN CASE cmd.name = N_new ->
              IF ok
              THEN [same EXCEPT
                      !.map = [sessionMap EXCEPT ![key] = SesId(nCreated + 1)],
                      !.created = nCreated + 1,
                      !.reply = "Created new session"]
              ELSE [same EXCEPT !.reply = "throw"]
         [] cmd.name = N_switch ->
              IF missingArgs(cmd)
              THEN [same EXCEPT !.reply = "Usage: /switch"]
              ELSE [same EXCEPT
                      !.map = [sessionMap EXCEPT ![key] = cmd.args],
                      !.reply = "Switched to session"]
         [] cmd.name = N_sessions ->
              IF ~ok \/ nCreated = 0
              THEN [same EXCEPT !.reply = "No sessions found."]
              ELSE [same EXCEPT !.reply = "session list"]
         [] cmd.name = N_current ->
              IF sessionMap[key] = Absent
              THEN [same EXCEPT !.reply = "No active session."]
              ELSE [same EXCEPT !.reply = "Current session"]
         [] cmd.name = N_fork ->
              IF sessionMap[key] = Absent
              THEN [same EXCEPT !.reply = "No active session to fork."]
              ELSE IF ~ok
              THEN [same EXCEPT !.reply = "Fork failed"]
              ELSE [same EXCEPT
                      !.map = [sessionMap EXCEPT ![key] = SesId(nCreated + 1)],
                      !.created = nCreated + 1,
                      !.reply = "Forked into new session"]
         [] cmd.name = N_cancel ->
              IF cancelTarget(msg) = Absent
              THEN [same EXCEPT !.reply = "No agent is currently running."]
              ELSE [same EXCEPT
                      !.aborts = Append(abortCalls, cancelTarget(msg)),
                      !.reply = IF ok THEN "Agent aborted."
                                ELSE "Abort request sent"]
         [] cmd.name = N_status ->
              IF activeStreams[pk] = Absent
              THEN [same EXCEPT !.reply = "No agent is currently running."]
              ELSE [same EXCEPT
                      !.reply = IF activeStreamsMeta[pk].lastTool /= None
                                THEN "Agent is running, last tool"
                                ELSE "Agent is running"]
         [] cmd.name = N_help -> [same EXCEPT !.reply = "help"]
         [] OTHER -> [same EXCEPT !.reply = "Unknown command"]

\* -------------------------------------------------- router: the actions
\* Inbound messages handed to the handler in one run of the router.
MaxMsgs == 3
\* Of them, the messages that reach the prompt path.
MaxTurns == 2

Put(pk, kind) == outbox' = outbox (+) SetToBag({<<pk, kind>>})

TurnIds == 1..Len(turns)

\* A routeMessage call on the prompt path: where it is, the session it
\* prompts, the answer its question was resolved with and the one the engine
\* passed on, and whether it has asked its question and announced its tool.
NewTurn(msg, pc, sess) ==
    [pk |-> peerKey(msg.channel, msg.peerId), key |-> SessionKeyOf(msg),
     text |-> msg.text, pc |-> pc, sess |-> sess, answer |-> <<>>,
     replied |-> <<>>, asked |-> FALSE, tooled |-> FALSE]

\* activeStreams.set / activeStreamsMeta.set; the ordinal of the turn stands
\* for its startedAt.
SetActive(pk, sess, t) ==
    /\ activeStreams' = [activeStreams EXCEPT ![pk] = sess]
    /\ activeStreamsMeta' =
          [activeStreamsMeta EXCEPT ![pk] = [startedAt |-> t, lastTool |-> None]]

\* handler, when pendingQuestions has a record for the peer key: the timer
\* is cleared, the record deleted and the promise resolved with the text.
Rendezvous(msg) ==
    LET pk == peerKey(msg.channel, msg.peerId)
        pending == pendingQuestions[pk]
    IN /\ qTimers' = qTimers \ {pending}
       /\ pendingQuestions' = [pendingQuestions EXCEPT ![pk] = NoOwner]
       /\ turns' = IF turns[pending].pc = "waiting"
                   THEN [turns EXCEPT ![pending].answer = msg.text,
                                      ![pending].pc = "answered"]
                   ELSE turns
       /\ UNCHANGED <<sessionMap, nCreated, activeStreams, activeStreamsMeta,
                      outbox, abortCalls>>

\* routeMessage up to its first call that waits for the agent runtime: the
\* allowlist, the command interception, and the session of the key.
routeMessage(msg) ==
    LET pk == peerKey(msg.channel, msg.peerId)
        cmd == parseCommand(msg.text)
        existing == sessionMap[SessionKeyOf(msg)]
    IN IF ~checkAllowlist(msg)
       THEN /\ IF rejectCfg[msg.channel] = "reject"
               THEN Put(pk, "This assistant is private.")
               ELSE UNCHANGED outbox
            /\ UNCHANGED <<turns, sessionMap, nCreated, activeStreams,
                           activeStreamsMeta, pendingQuestions, qTimers,
                           abortCalls>>
       ELSE IF cmd.isCmd
       THEN \E ok \in BOOLEAN :
               LET r == handleCommand(cmd, msg, ok)
               IN /\ sessionMap' = r.map
                  /\ nCreated' = r.created
                  /\ abortCalls' = r.aborts
                  /\ Put(pk, IF r.reply = "throw"
                             THEN "An internal error occurred."
                             ELSE r.reply)
                  /\ UNCHANGED <<turns, activeStreams, activeStreamsMeta,
                                 pendingQuestions, qTimers>>
       ELSE IF existing /= Absent
       THEN /\ turns' = Append(turns, NewTurn(msg, "typing", existing))
            /\ SetActive(pk, existing, Len(turns) + 1)
            /\ UNCHANGED <<sessionMap, nCreated, pendingQuestions, qTimers,
                           outbox, abortCalls>>
       ELSE /\ turns' = Append(turns, NewTurn(msg, "creating", Absent))
            /\ UNCHANGED <<sessionMap, nCreated, activeStreams,
                           activeStreamsMeta, pendingQuestions, qTimers,
                           outbox, abortCalls>>

\* The message is neither an answer nor dropped nor a command.
StartsTurn(msg) ==
    /\ pendingQuestions[peerKey(msg.channel, msg.peerId)] = NoOwner
    /\ checkAllowlist(msg)
    /\ ~parseCommand(msg.text).isCmd

\* A variant of the handler that lets a command through to routeMessage
\* before it looks for a pending question.
handlerCommandFirst(msg) ==
    /\ UNCHANGED <<turnVars, sideVars, allowCfg, rejectCfg>>
    /\ nMsgs < MaxMsgs
    /\ nMsgs' = nMsgs + 1
    /\ StartsTurn(msg) => Len(turns) < MaxTurns
    /\ IF pendingQuestions[peerKey(msg.channel, msg.peerId)] /= NoOwner
          /\ ~parseCommand(msg.text).isCmd
       THEN Rendezvous(msg)
       ELSE routeMessage(msg)

\* A variant of handler that lets only listed senders answer a question.
handlerAllowlistFirst(msg) ==
    /\ UNCHANGED <<turnVars, sideVars, allowCfg, rejectCfg>>
    /\ nMsgs < MaxMsgs
    /\ nMsgs' = nMsgs + 1
    /\ StartsTurn(msg) => Len(turns) < MaxTurns
    /\ IF pendingQuestions[peerKey(msg.channel, msg.peerId)] /= NoOwner
          /\ checkAllowlist(msg)
       THEN Rendezvous(msg)
       ELSE routeMessage(msg)

\* handler: an inbound message arrives.
handler(msg) ==
    /\ UNCHANGED <<turnVars, sideVars, allowCfg, rejectCfg>>
    /\ nMsgs < MaxMsgs
    /\ nMsgs' = nMsgs + 1
    /\ StartsTurn(msg) => Len(turns) < MaxTurns
    /\ IF pendingQuestions[peerKey(msg.channel, msg.peerId)] /= NoOwner
       THEN Rendezvous(msg)
       ELSE routeMessage(msg)

\* What a step of one turn leaves alone.
Quiet == <<turnVars, sideVars, allowCfg, rejectCfg, nMsgs>>

\* resolveSession, after client.session.create has answered: the new id is
\* put in the map and routeMessage marks the stream active; without data
\* resolveSession throws and the handler sends its error reply.
SessionCreated(t, ok) ==
    /\ UNCHANGED Quiet
    /\ turns[t].pc = "creating"
    /\ IF ok
       THEN /\ nCreated' = nCreated + 1
            /\ sessionMap' = [sessionMap EXCEPT ![turns[t].key] = SesId(nCreated + 1)]
            /\ SetActive(turns[t].pk, SesId(nCreated + 1), t)
            /\ turns' = [turns EXCEPT ![t].pc = "typing",
                                      ![t].sess = SesId(nCreated + 1)]
            /\ UNCHANGED outbox
       ELSE /\ turns' = [turns EXCEPT ![t].pc = "done"]
            /\ Put(turns[t].pk, "An internal error occurred.")
            /\ UNCHANGED <<nCreated, sessionMap, activeStreams, activeStreamsMeta>>
    /\ UNCHANGED <<pendingQuestions, qTimers, abortCalls>>

\* adapter.sendTyping has settled: promptStreaming is called.
BeginStream(t) ==
    /\ UNCHANGED Quiet
    /\ turns[t].pc = "typing"
    /\ turns' = [turns EXCEPT ![t].pc = "stream"]
    /\ UNCHANGED <<sessionMap, nCreated, activeStreams, activeStreamsMeta,
                   pendingQuestions, qTimers, outbox, abortCalls>>

\* progress.onToolRunning, called by the turn's engine.
onToolRunning(t, title) ==
    /\ UNCHANGED Quiet
    /\ turns[t].pc = "stream" /\ ~turns[t].tooled
    /\ activeStreamsMeta' =
          IF activeStreamsMeta[turns[t].pk] /= NoMeta
          THEN [activeStreamsMeta EXCEPT ![turns[t].pk].lastTool = title]
          ELSE activeStreamsMeta
    /\ Put(turns[t].pk, "tool")
    /\ turns' = [turns EXCEPT ![t].tooled = TRUE]
    /\ UNCHANGED <<sessionMap, nCreated, activeStreams, pendingQuestions,
                   qTimers, abortCalls>>

\* progress.onQuestion, called by the turn's engine: the question is sent.
onQuestion(t) ==
    /\ UNCHANGED Quiet
    /\ turns[t].pc = "stream" /\ ~turns[t].asked
    /\ Put(turns[t].pk, "question")
    /\ turns' = [turns EXCEPT ![t].pc = "asking", ![t].asked = TRUE]
    /\ UNCHANGED <<sessionMap, nCreated, activeStreams, activeStreamsMeta,
                   pendingQuestions, qTimers, abortCalls>>

\* waitForUserReply, once the question is sent: the timer is armed and the
\* record put in pendingQuestions under the peer key.
waitForUserReply(t) ==
    /\ UNCHANGED Quiet
    /\ turns[t].pc = "asking"
    /\ qTimers' = qTimers \cup {t}
    /\ pendingQuestions' = [pendingQuestions EXCEPT ![turns[t].pk] = t]
    /\ turns' = [turns EXCEPT ![t].pc = "waiting"]
    /\ UNCHANGED <<sessionMap, nCreated, activeStreams, activeStreamsMeta,
                   outbox, abortCalls>>

\* The timer of waitForUserReply fires: the record under the peer key is
\* deleted and the promise rejected; the engine rejects the question and
\* goes on with the stream.
questionTimer(t) ==
    /\ UNCHANGED Quiet
    /\ t \in qTimers
    /\ qTimers' = qTimers \ {t}
    /\ pendingQuestions' = [pendingQuestions EXCEPT ![turns[t].pk] = NoOwner]
    /\ turns' = IF turns[t].pc = "waiting"
                THEN [turns EXCEPT ![t].pc = "stream"]
                ELSE turns
    /\ UNCHANGED <<sessionMap, nCreated, activeStreams, activeStreamsMeta,
                   outbox, abortCalls>>

\* onQuestion returns the user's reply and the engine passes it on with
\* client.question.reply.
questionReplied(t) ==
    /\ UNCHANGED Quiet
    /\ turns[t].pc = "answered"
    /\ turns' = [turns EXCEPT ![t].pc = "stream", ![t].replied = turns[t].answer]
    /\ UNCHANGED <<sessionMap, nCreated, activeStreams, activeStreamsMeta,
                   pendingQuestions, qTimers, outbox, abortCalls>>

Outcomes == {"ok", "empty", "timeout", "aborted", "error"}

\* promptStreaming returns or throws: the finally block of routeMessage
\* deletes the peer key from the three maps, then the outcome is reported.
promptStreamingEnds(t, o) ==
    /\ UNCHANGED Quiet
    /\ turns[t].pc = "stream"
    /\ activeStreams' = [activeStreams EXCEPT ![turns[t].pk] = Absent]
    /\ activeStreamsMeta' = [activeStreamsMeta EXCEPT ![turns[t].pk] = NoMeta]
    /\ pendingQuestions' = [pendingQuestions EXCEPT ![turns[t].pk] = NoOwner]
    /\ turns' = [turns EXCEPT ![t].pc = "done"]
    /\ CASE o = "ok" -> Put(turns[t].pk, "reply")
         [] o = "empty" -> Put(turns[t].pk, "(empty response)")
         [] o = "timeout" -> Put(turns[t].pk, "Request timed out.")
         [] o = "aborted" -> UNCHANGED outbox
         [] OTHER -> Put(turns[t].pk, "An internal error occurred.")
    /\ UNCHANGED <<sessionMap, nCreated, qTimers, abortCalls>>

Init ==
    /\ TurnStart
    /\ progressOn = TRUE
    /\ \E cfg \in Configs : RouterInit(cfg)
    /\ FnIdle
    /\ SysIdle

Next ==
    \/ \E msg \in Inbound : handler(msg)
    \/ \E t \in TurnIds, ok \in BOOLEAN : SessionCreated(t, ok)
    \/ \E t \in TurnIds : BeginStream(t)
    \/ \E t \in TurnIds : onToolRunning(t, "read_file")
    \/ \E t \in TurnIds : onQuestion(t)
    \/ \E t \in TurnIds : waitForUserReply(t)
    \/ \E t \in TurnIds : questionTimer(t)
    \/ \E t \in TurnIds : questionReplied(t)
    \/ \E t \in TurnIds, o \in Outcomes : promptStreamingEnds(t, o)

Spec == Init /\ [][Next]_vars

\* ------------------------------------------------------------- claims
Done == epc = "done"
Reply == Join(textParts)

\* C2 (as stated): a successful run is followed by exactly one send that
\* carries the engine's final text.
C2_ExactlyOneFinalText ==
    (Done /\ outcome = "ok") => CopiesIn(<<"final", Reply>>, sent) = 1

\* C2 (amended): a successful run is followed by exactly one final send,
\* which carries the final text when that is not empty and the fixed
\* empty-response placeholder when it is; no final send is made before the
\* run has ended, however many progress messages were sent.
C2_ExactlyOneFinalSend ==
    /\ ~Done => SentOf("final") + SentOf("empty") = 0
    /\ (Done /\ outcome = "ok") =>
          /\ SentOf("final") + SentOf("empty") = 1
          /\ SentOf("timeout") = 0
          /\ IF Reply = <<>>
             THEN SentOf("empty") = 1
             ELSE CopiesIn(<<"final", Reply>>, sent) = 1

C2_Witness ==
    /\ Done /\ outcome = "ok" /\ Reply /= <<>>
    /\ SentOf("tool") >= 1 /\ SentOf("heartbeat") >= 1

\* C3: once the deadline has passed with the run still going, the run ends
\* with the timeout outcome, whatever the stream does afterwards.
C3_TimeoutLiveness == aborted ~> (outcome = "timeout")

\* C4: after the deadline the run never returns successfully, and the router
\* sends exactly one timed-out message and never the partial text.
C4_NoSuccessAfterDeadline ==
    aborted =>
       /\ outcome /= "ok"
       /\ Done => /\ SentOf("timeout") = 1
                  /\ SentOf("final") + SentOf("empty") = 0

\* C6: the prompt is fired only with the subscription open, never before it
\* and never when subscribing failed.
C6_SubscribeThenFire == promptFired => streamState /= None

C6_Witness == promptFired /\ streamState = "open" /\ epc = "loop"

\* An event of another session is taken off the stream.
ForeignEvent ==
    \/ EvDelta(Other, "prt1", <<"a">>)
    \/ \E t \in {<<>>, <<"a">>} : EvTextPart(Other, "prt1", t)
    \/ \E c \in CallIds, st \in {"running", "completed"} : EvToolPart(Other, c, st)
    \/ \E rejOk \in BOOLEAN : EvQuestion(Other, rejOk)
    \/ EvTodo(Other)
    \/ \E n \in ErrNames, m \in ErrMsgs : EvError(Other, n, m)
    \/ EvIdle(Other)

\* C7: an event of another session has no effect on the run: no text, no
\* callback, no reply or reject call, and the run is not ended.
C7_SessionIsolation ==
    [][ForeignEvent =>
         UNCHANGED <<epc, outcome, textParts, notifiedTools, sent, qCalls,
                     turnPending, toolLog, curQuestion, lastActivityTime>>]_vars

\* C8: no call id is notified twice, and any two tool notifications are at
\* least toolThrottleMs apart, so n notifications span at least
\* (n - 1) * toolThrottleMs.
C8_ToolThrottle ==
    /\ \A i, j \in 1..Len(toolLog) :
          i < j => /\ toolLog[i][1] /= toolLog[j][1]
                   /\ toolLog[j][2] - toolLog[i][2] >= ToolThrottleMs
    /\ Len(toolLog) >= 1 =>
          (Len(toolLog) - 1) * ToolThrottleMs
             <= toolLog[Len(toolLog)][2] - toolLog[1][2]

C8_Witness == Len(toolLog) = 2

RECURSIVE MaxTimeOf(_, _)
MaxTimeOf(log, k) ==
    IF log = <<>> THEN 0
    ELSE LET m == MaxTimeOf(Tail(log), k)
         IN IF Head(log)[k] > m THEN Head(log)[k] ELSE m

LastNotified ==
    LET a == MaxTimeOf(toolLog, 2)
        b == MaxTimeOf(hbLog, 1)
        c == IF a > b THEN a ELSE b
    IN IF c > startTime THEN c ELSE startTime

HeartbeatOn == heartbeatTimer /= NoTimer /\ Running

\* C10 (as stated): with onHeartbeat configured, a heartbeat fires when the
\* silence since the last tool notification or question reaches heartbeatMs,
\* so the silence of a run in progress never exceeds heartbeatMs.
C10_FiresWhenSilenceReached ==
    (HeartbeatOn /\ curQuestion = 0) => now - LastNotified <= HeartbeatMs

\* C10 (amended): onHeartbeat fires only at the ticks of the interval timer,
\* heartbeatMs apart from the run's start, and at every tick at which the
\* silence since the last activity (a settled tool or todo notification, an
\* answered question, a heartbeat) has reached heartbeatMs: it fires with a
\* silence of at least heartbeatMs and less than twice heartbeatMs, and the
\* silence of a run in progress stays below twice heartbeatMs.
C10_HeartbeatCadence ==
    /\ \A i \in 1..Len(hbLog) :
          /\ (hbLog[i][1] - startTime) % HeartbeatMs = 0
          /\ hbLog[i][2] >= HeartbeatMs
          /\ hbLog[i][2] < 2 * HeartbeatMs
          /\ i > 1 => hbLog[i - 1][1] < hbLog[i][1]
    /\ HeartbeatOn => now - lastQual < 2 * HeartbeatMs

C10_Witness == \E i \in 1..Len(hbLog) : hbLog[i][2] > HeartbeatMs

\* ------------------------------------------------------ claims: router
\* promptStreaming is running for the turn.
InFlight(t) == turns[t].pc \in {"stream", "asking", "waiting", "answered"}

\* C1: when pendingQuestions has a record for the peer key of an inbound
\* message, handling the message resolves the suspended onQuestion of the
\* record's turn with the raw text, removes the record, cancels its timer
\* and does nothing else: no command is executed, no session resolved, no
\* turn started, no reply sent.
C1_QuestionRendezvous ==
    [][\A msg \in Inbound :
         LET pk == peerKey(msg.channel, msg.peerId)
             o == pendingQuestions[pk]
         IN (handler(msg) /\ o /= NoOwner) =>
               /\ turns[o].pc = "waiting"
               /\ turns' = [turns EXCEPT ![o].answer = msg.text,
                                         ![o].pc = "answered"]
               /\ pendingQuestions'[pk] = NoOwner
               /\ o \notin qTimers'
               /\ UNCHANGED <<sessionMap, nCreated, activeStreams,
                              activeStreamsMeta, outbox, abortCalls>>]_vars

\* A turn's question was answered with the text "/cancel", which the engine
\* passed on, and the turn is still streaming with nothing aborted.
C1_Witness ==
    \E t \in TurnIds :
       /\ turns[t].replied = T_cancel
       /\ InFlight(t)
       /\ activeStreams[turns[t].pk] /= Absent
       /\ abortCalls = <<>>

\* C5: at most one turn per peer key has promptStreaming running, and the
\* active record under the key of a running turn is the one that turn set.
C5_OneTurnPerPeer ==
    /\ \A a, b \in TurnIds :
          (InFlight(a) /\ InFlight(b) /\ turns[a].pk = turns[b].pk) => a = b
    /\ \A t \in TurnIds :
          InFlight(t) => activeStreamsMeta[turns[t].pk].startedAt = t

\* ------------------------------------------------- claims: C11 to C20
BlankLine == <<"\n", "\n">>

RECURSIVE JoinWith(_, _)
\* The parts' texts in their order, with a separator between neighbours.
JoinWith(parts, sep) ==
    IF parts = <<>> THEN <<>>
    ELSE IF Len(parts) = 1 THEN Head(parts).text
    ELSE Head(parts).text \o sep \o JoinWith(Tail(parts), sep)

\* C11: on success the engine returns the latest values of the target
\* session's text parts, in the order the parts were first seen, separated
\* by blank lines.
C11_JoinedWithBlankLines ==
    (epc = "returned" /\ outcome = "ok") =>
        Reply = JoinWith(textParts, BlankLine)

\* C12: once promptStreaming has ended after opening the subscription, by
\* whatever path, the timeout timer and the heartbeat interval are cleared
\* and the subscription is closed, and no heartbeat of the run is later
\* than its end.
C12_CleanupOnEveryExit ==
    (epc \in {"returned", "done"} /\ streamState /= None) =>
        /\ timer = NoTimer
        /\ heartbeatTimer = NoTimer
        /\ streamState = "closed"
        /\ \A i \in 1..Len(hbLog) : hbLog[i][1] <= endTime
        /\ ~ENABLED TimeoutFire
        /\ \A ok \in BOOLEAN : ~ENABLED HeartbeatTick(ok)

\* A run with a heartbeat behind it has ended by a throwing reject call.
C12_Witness ==
    /\ epc = "returned" /\ outcome = "error"
    /\ hbLog /= <<>>
    /\ qCalls /= <<>> /\ qCalls[Len(qCalls)][1] = "reject"

Answered == progressOn /\ curAnswer \in Answers

\* The question of the run has been dealt with.
QSettled == curQuestion >= 1 /\ epc \notin {"askQuestion", "awaitAnswer", "reply"}

\* The places in qCalls of the calls of a kind for the run's question.
QCallsOf(kind) ==
    {i \in 1..Len(qCalls) : qCalls[i][1] = kind /\ qCalls[i][2] = curQuestion}

C16_TimeoutEndsSuspension ==
    epc = "awaitAnswer" => now <= startTime + TimeoutMs

\* C17: a session error of the target session that is not an abort, met
\* before the deadline, ends the run as a failure (which the handler
\* reports with its one generic message), never as a timeout and never as
\* an abort.
C17_ErrorsReachTheHandler ==
    [][\A m \in ErrMsgs :
         (EvError(Target, "APIError", m) /\ ~aborted) =>
             outcome' = "error"]_vars

\* C18: no error other than a session error naming the user's abort ends
\* the turn with the aborted outcome.
C18_AbortedOnlyByUserAbort ==
    [][\A s \in Sessions \cup {NoSession}, m \in ErrMsgs :
         EvError(s, "APIError", m) => outcome' /= "aborted"]_vars

\* C19: a best-effort side effect, failing or not, leaves the turn where a
\* success leaves it: after a tool or todo notification the run is back in
\* its loop, a heartbeat and the typing indicator change neither the run's
\* position nor its outcome, and after a failed stopTyping the router sends
\* the message the outcome calls for.
C19_SideEffectsNeverAbort ==
    [][/\ (\E ok \in BOOLEAN : ToolDone(ok) \/ TodoDone(ok)) =>
             (epc' = "loop" /\ UNCHANGED <<outcome, streamState, textParts>>)
       /\ (\E ok \in BOOLEAN : HeartbeatTick(ok)) =>
             UNCHANGED <<epc, outcome, streamState, textParts>>
       /\ RouteStart(FALSE) =>
             (epc' = "subscribe" /\ UNCHANGED <<outcome, streamState>>)
       /\ RouterFinish(TRUE, FALSE) =>
             /\ UNCHANGED outcome
             /\ sent' = sent (+) SetToBag(FinalSend(outcome, Join(textParts)))
      ]_vars

\* The typing indicator failed when the turn began, a tool notification
\* was made, and the run has returned its text.
C19_Witness ==
    /\ typing = "failed" /\ SentOf("tool") >= 1
    /\ epc = "returned" /\ outcome = "ok" /\ Reply /= <<>>

\* C20: while promptStreaming is running for a turn, activeStreams holds the
\* turn's session id under the turn's peer key, so that /status and /cancel
\* of the peer find it.
C20_ActiveRecordWhileInFlight ==
    \A t \in TurnIds :
       InFlight(t) => activeStreams[turns[t].pk] = turns[t].sess

\* ------------------------------------------- router: the pure functions
\* Number.parseInt(s), radix 10: leading blanks and one sign are skipped,
\* the digits that follow are read, and anything after them is ignored;
\* without a digit the result is NaN.
DigitChars == <<"0", "1", "2", "3", "4", "5", "6", "7", "8", "9">>
IsDigit(c) == \E i \in 1..10 : DigitChars[i] = c
DigitVal(c) == (CHOOSE i \in 1..10 : DigitChars[i] = c) - 1

RECURSIVE DigitsValue(_, _)
DigitsValue(s, acc) ==
    IF s /= <<>> /\ IsDigit(Head(s))
    THEN DigitsValue(Tail(s), 10 * acc + DigitVal(Head(s)))
    ELSE acc

parseInt(s) ==
    LET t == TrimStart(s)
        signed == t /= <<>> /\ Head(t) \in {"-", "+"}
        u == IF signed THEN Tail(t) ELSE t
    IN IF u = <<>> \/ ~IsDigit(Head(u))
       THEN [nan |-> TRUE, val |-> 0]
       ELSE [nan |-> FALSE,
             val |-> IF signed /\ Head(t) = "-"
                     THEN 0 - DigitsValue(u, 0)
                     ELSE DigitsValue(u, 0)]

Max(a, b) == IF a >= b THEN a ELSE b
Min(a, b) == IF a <= b THEN a ELSE b

PAGE_SIZE == 10

\* A variant of the "sessions" case that takes the page as it was asked for.
sessionsPageUnclamped(n, args) ==
    LET parsed == parseInt(args)
        page == Max(1, IF parsed.nan \/ parsed.val = 0 THEN 1 ELSE parsed.val)
        totalPages == (n + PAGE_SIZE - 1) \div PAGE_SIZE
        clamped == page
        from == (clamped - 1) * PAGE_SIZE
        to == Max(from, Min(clamped * PAGE_SIZE, n))
    IN IF n = 0
       THEN [fn |-> "sessions", none |-> TRUE, items |-> <<>>,
             footer |-> FALSE, page |-> 0, total |-> 0, next |-> 0]
       ELSE [fn |-> "sessions", none |-> FALSE,
             items |-> [i \in 1..(to - from) |-> from + i],
             footer |-> totalPages > 1,
             page |-> clamped, total |-> totalPages,
             next |-> IF totalPages > 1 /\ clamped < totalPages
                      THEN clamped + 1 ELSE 0]

\* The "sessions" case of handleCommand over a list of n sessions, named by
\* their place in the list: the places it lists, and the footer.
sessionsPage(n, args) ==
    LET parsed == parseInt(args)
        page == Max(1, IF parsed.nan \/ parsed.val = 0 THEN 1 ELSE parsed.val)
        totalPages == (n + PAGE_SIZE - 1) \div PAGE_SIZE
        clamped == Min(page, totalPages)
        from == (clamped - 1) * PAGE_SIZE
        to == Min(clamped * PAGE_SIZE, n)
    IN IF n = 0
       THEN [fn |-> "sessions", none |-> TRUE, items |-> <<>>,
             footer |-> FALSE, page |-> 0, total |-> 0, next |-> 0]
       ELSE [fn |-> "sessions", none |-> FALSE,
             items |-> [i \in 1..(to - from) |-> from + i],
             footer |-> totalPages > 1,
             page |-> clamped, total |-> totalPages,
             next |-> IF totalPages > 1 /\ clamped < totalPages
                      THEN clamped + 1 ELSE 0]

\* String(n) of a number that is not negative.
RECURSIVE DecimalOf(_)
DecimalOf(n) ==
    IF n < 10 THEN <<DigitChars[n + 1]>>
    ELSE DecimalOf(n \div 10) \o <<DigitChars[(n % 10) + 1]>>

LowerLetters ==
    <<"a", "b", "c", "d", "e", "f", "g", "h", "i", "j", "k", "l", "m",
      "n", "o", "p", "q", "r", "s", "t", "u", "v", "w", "x", "y", "z">>
UpperLetters ==
    <<"A", "B", "C", "D", "E", "F", "G", "H", "I", "J", "K", "L", "M",
      "N", "O", "P", "Q", "R", "S", "T", "U", "V", "W", "X", "Y", "Z">>

\* String.prototype.toUpperCase of one character
UpperOf(c) ==
    IF \E i \in 1..26 : LowerLetters[i] = c
    THEN UpperLetters[CHOOSE i \in 1..26 : LowerLetters[i] = c]
    ELSE c

\* \w of a regular expression
IsWordChar(c) ==
    \/ \E i \in 1..26 : c \in {LowerLetters[i], UpperLetters[i]}
    \/ IsDigit(c)
    \/ c = "_"

\* raw.replace(/[-_]+/g, " "): every run of dashes and underscores becomes
\* one blank.
RECURSIVE SeparatorsToBlank(_)
SeparatorsToBlank(s) ==
    IF s = <<>> THEN <<>>
    ELSE IF Head(s) \in {"-", "_"}
    THEN IF Len(s) >= 2 /\ s[2] \in {"-", "_"}
         THEN SeparatorsToBlank(Tail(s))
         ELSE <<" ">> \o SeparatorsToBlank(Tail(s))
    ELSE <<Head(s)>> \o SeparatorsToBlank(Tail(s))

\* s.replace(/\b\w/g, c => c.toUpperCase()): a word character that no word
\* character precedes is put in upper case.
CapitalizeWords(s) ==
    [i \in 1..Len(s) |->
        IF IsWordChar(s[i]) /\ (i = 1 \/ ~IsWordChar(s[i - 1]))
        THEN UpperOf(s[i]) ELSE s[i]]

humanizeToolName(raw) ==
    IF \E i \in 1..Len(raw) : raw[i] = " "
    THEN raw
    ELSE CapitalizeWords(SeparatorsToBlank(raw))

\* A variant of the "status" case that shows all the seconds beside the
\* minutes.
statusReplySecondsTotal(ms, lastTool) ==
    LET elapsedSec == ms \div 1000
        mins == elapsedSec \div 60
        secs == elapsedSec
    IN [fn |-> "status",
        elapsed |-> IF mins > 0
                    THEN DecimalOf(mins) \o <<"m", " ">> \o DecimalOf(secs)
                         \o <<"s">>
                    ELSE DecimalOf(secs) \o <<"s">>,
        tool |-> IF lastTool /= <<>> THEN humanizeToolName(lastTool)
                 ELSE <<>>]

\* The "status" case of handleCommand while a turn is recorded: the elapsed
\* time and the tool the reply names, for the milliseconds since startedAt
\* and the record's lastTool (the empty text when there is none).
statusReply(ms, lastTool) ==
    LET elapsedSec == ms \div 1000
        mins == elapsedSec \div 60
        secs == elapsedSec % 60
    IN [fn |-> "status",
        elapsed |-> IF mins > 0
                    THEN DecimalOf(mins) \o <<"m", " ">> \o DecimalOf(secs)
                         \o <<"s">>
                    ELSE DecimalOf(secs) \o <<"s">>,
        tool |-> IF lastTool /= <<>> THEN humanizeToolName(lastTool)
                 ELSE <<>>]

\* --------------------------------------------------------------- FnSpec
\* The session lists /sessions pages through, and the page arguments.
MaxSessions == 25
PageArgs ==
    { <<>>, <<"a", "b", "c">>, <<"0">>, <<"-", "1">>, <<"1">>, <<"2">>,
      <<"3">>, <<"9", "9">>, <<"2", "x">> }

\* The times /status is asked at, in milliseconds after startedAt, and the
\* tools the record may name.
ElapsedMs == {0, 999, 1000, 59999, 60000, 61001, 125999, 3600000}
ToolNames ==
    { <<>>,
      <<"r", "e", "a", "d", "_", "f", "i", "l", "e">>,
      <<"w", "e", "b", "-", "_", "s", "e", "a", "r", "c", "h">>,
      <<"R", "u", "n", " ", "t", "e", "s", "t", "_", "s">>,
      <<"b", "a", "s", "h">> }

\* The arguments buildSessionKey is called with.
KeyInputs ==
    { [channel |-> c, peerId |-> p, threadId |-> t] :
        c \in {Chars("slack"), Chars("whatsapp")},
        p \in {Chars("c1"),
               Chars("c1") \o <<":">> \o ThreadWord \o <<":">> \o Chars("t1")},
        t \in {<<>>, Chars("t1")} }

FnInputs ==
    { [fn |-> "sessions", n |-> n, args |-> a] :
        n \in 0..MaxSessions, a \in PageArgs }
    \cup { [fn |-> "status", ms |-> ms, lastTool |-> t] :
             ms \in ElapsedMs, t \in ToolNames }
    \cup { [fn |-> "key", a |-> a, b |-> b] : a \in KeyInputs, b \in KeyInputs }

FnInit ==
    /\ TurnStart
    /\ progressOn = TRUE
    /\ RouterIdle
    /\ fnIn \in FnInputs
    /\ fnOut = NoFn
    /\ SysIdle

FnRest == <<turnVars, routerVars, fnIn, sysVars>>

ApplySessions ==
    /\ fnIn.fn = "sessions" /\ fnOut = NoFn
    /\ fnOut' = sessionsPage(fnIn.n, fnIn.args)
    /\ UNCHANGED FnRest

ApplyStatus ==
    /\ fnIn.fn = "status" /\ fnOut = NoFn
    /\ fnOut' = statusReply(fnIn.ms, fnIn.lastTool)
    /\ UNCHANGED FnRest

ApplyKey ==
    /\ fnIn.fn = "key" /\ fnOut = NoFn
    /\ fnOut' = [fn |-> "key",
                 a |-> buildSessionKey(fnIn.a.channel, fnIn.a.peerId,
                                       fnIn.a.threadId),
                 b |-> buildSessionKey(fnIn.b.channel, fnIn.b.peerId,
                                       fnIn.b.threadId)]
    /\ UNCHANGED FnRest

FnNext == ApplySessions \/ ApplyStatus \/ ApplyKey

FnSpec == FnInit /\ [][FnNext]_vars

\* ------------------------------------------------ claims on the router
\* The sender of the message is not on the list its channel is private to.
Unlisted(msg) ==
    LET who == IF msg.senderId /= NoSender THEN msg.senderId ELSE msg.peerId
    IN allowCfg[msg.channel] /= {} /\ who \notin allowCfg[msg.channel]

NoQuestionPending(msg) ==
    pendingQuestions[peerKey(msg.channel, msg.peerId)] = NoOwner

\* The message, blanks around it aside, begins with a slash.
IsCommandText(msg) == LET t == Trim(msg.text) IN t /= <<>> /\ Head(t) = "/"

\* One more message of the kind has been sent to the peer, and nothing else.
OneSend(msg, kind) ==
    outbox' = outbox (+) SetToBag({<<peerKey(msg.channel, msg.peerId), kind>>})

\* One more message has been sent to the peer, and nothing else.
OneSendOfAnyKind(msg) ==
    \E e \in BagToSet(outbox') :
        /\ e[1] = peerKey(msg.channel, msg.peerId)
        /\ outbox' = outbox (+) SetToBag({e})

T_switchBare == <<"/", "s", "w", "i", "t", "c", "h">>
T_fork == <<"/", "f", "o", "r", "k">>
T_current == <<"/", "c", "u", "r", "r", "e", "n", "t">>
T_sessions == <<"/", "s", "e", "s", "s", "i", "o", "n", "s">>
T_status == <<"/", "s", "t", "a", "t", "u", "s">>
T_help == <<"/", "h", "e", "l", "p">>
CmdTexts ==
    MsgTexts \cup {T_switchBare, T_fork, T_current, T_sessions, T_status,
                   T_help}

CmdInbound ==
    { [channel |-> p.channel, peerId |-> p.peerId, senderId |-> p.senderId,
       threadId |-> p.threadId, text |-> t] : p \in Peers, t \in CmdTexts }

CmdInit ==
    /\ TurnStart
    /\ progressOn = TRUE
    /\ RouterIdle
    /\ FnIdle
    /\ SysIdle

CmdNext ==
    \/ \E msg \in CmdInbound : handler(msg)
    \/ \E t \in TurnIds, ok \in BOOLEAN : SessionCreated(t, ok)
    \/ \E t \in TurnIds : BeginStream(t)
    \/ \E t \in TurnIds : onToolRunning(t, "read_file")
    \/ \E t \in TurnIds : promptStreamingEnds(t, "ok")

CmdSpec == CmdInit /\ [][CmdNext]_vars

\* ------------------------------------------------------------- BindSpec
\* Messages that are no commands, alone: each resolves the session of its
\* conversation and runs its turn.
BindInbound == {msg \in Inbound : msg.text = T_hi}

BindNext ==
    \/ \E msg \in BindInbound : handler(msg)
    \/ \E t \in TurnIds, ok \in BOOLEAN : SessionCreated(t, ok)
    \/ \E t \in TurnIds : BeginStream(t)
    \/ \E t \in TurnIds, o \in Outcomes : promptStreamingEnds(t, o)

BindSpec == Init /\ [][BindNext]_vars

\* ---------------------------------------------- claims on the commands
\* The message reaches the command interpreter.
Dispatched(msg) ==
    handler(msg) /\ NoQuestionPending(msg) /\ ~Unlisted(msg)
       /\ IsCommandText(msg)

ReportsOnly(msg) ==
    \/ msg.text \in {T_switchBare, T_current, T_sessions, T_status, T_help,
                     T_unknown}
    \/ /\ msg.text = T_fork
       /\ \/ sessionMap[SessionKeyOf(msg)] = Absent
          \/ OneSend(msg, "Fork failed")

\* C26: a command that only reports leaves every binding of a conversation
\* to a session, every record of an active turn and every pending question
\* as they were, and has no session created or rebound.
C26_ReportingCommandsChangeNothing ==
    [][\A msg \in CmdInbound :
          (Dispatched(msg) /\ ReportsOnly(msg)) =>
             UNCHANGED <<sessionMap, nCreated, activeStreams,
                         activeStreamsMeta, pendingQuestions, qTimers,
                         turns, abortCalls>>]_vars

\* A conversation bound to a session was told how to use /switch and that
\* its fork failed, and is bound as before.
C26_Witness ==
    \E msg \in CmdInbound :
       LET pk == peerKey(msg.channel, msg.peerId)
       IN /\ sessionMap[SessionKeyOf(msg)] = SesId(1)
          /\ nCreated = 1
          /\ CopiesIn(<<pk, "Usage: /switch">>, outbox) = 1
          /\ CopiesIn(<<pk, "Fork failed">>, outbox) = 1

\* C27: once /switch has bound a conversation to a session, the binding
\* stays until a later message of the conversation changes it, so that the
\* next message that is no command is prompted against that session.
C27_SwitchedBindingStays ==
    [][\A k \in SessionKeys :
          (sessionMap[k] = <<"x">> /\ sessionMap'[k] /= <<"x">>) =>
             nMsgs' = nMsgs + 1]_vars

\* C28: a Slack command that carries a thread id works on the binding of
\* buildSessionKey('slack', peerId, threadId), and on no other.
C28_SlackCommandKeyHasThread ==
    [][\A msg \in CmdInbound :
          (Dispatched(msg) /\ msg.channel = "slack"
             /\ msg.threadId /= NoThread) =>
             \A k \in SessionKeys :
                sessionMap'[k] /= sessionMap[k] =>
                   k = buildSessionKey(Chars("slack"), Chars(msg.peerId),
                                       Chars(msg.threadId))]_vars

\* C30: the messages of one conversation that are no commands have at most
\* one session created for it, and are all prompted against the same one.
C30_LazySingleBinding ==
    /\ \A a, b \in TurnIds :
          (turns[a].key = turns[b].key /\ turns[a].sess /= Absent
             /\ turns[b].sess /= Absent) => turns[a].sess = turns[b].sess
    /\ nCreated <= Cardinality({turns[t].key : t \in TurnIds})

\* ---------------------------------------- claims on the pure functions
\* The text is a number written in digits.
IsPlainNumber(args) ==
    args /= <<>> /\ \A i \in 1..Len(args) : IsDigit(args[i])

\* The text does not begin with a digit.
NotNumeric(args) == args = <<>> \/ ~IsDigit(args[1])

\* The page asked for: the number written, and page 1 without one.
RequestedPage(args) ==
    IF IsPlainNumber(args)
    THEN CHOOSE v \in 0..99 : DecimalOf(v) = args
    ELSE 1

\* The number of pages of n sessions.
PagesOf(n) ==
    CHOOSE t \in 1..n : (t - 1) * PAGE_SIZE < n /\ n <= t * PAGE_SIZE

SecondsOf(ms) == CHOOSE k \in 0..3600 : k * 1000 <= ms /\ ms < (k + 1) * 1000

\* The letters and digits of a text, in lower case.
RECURSIVE Squash(_)
Squash(s) ==
    IF s = <<>> THEN <<>>
    ELSE IF Head(s) \in {"-", "_", " "} THEN Squash(Tail(s))
    ELSE <<IF \E i \in 1..26 : UpperLetters[i] = Head(s)
           THEN LowerLetters[CHOOSE i \in 1..26 : UpperLetters[i] = Head(s)]
           ELSE Head(s)>> \o Squash(Tail(s))

IsLower(c) == \E i \in 1..26 : LowerLetters[i] = c

\* The name reads as words: no dash and no underscore, and no word that
\* begins with a small letter.
ReadsAsWords(s) ==
    \A i \in 1..Len(s) :
       /\ s[i] \notin {"-", "_"}
       /\ (i = 1 \/ s[i - 1] = " ") => ~IsLower(s[i])

\* C25: /status shows the whole seconds e since the turn began as 'es' when
\* e < 60 and as 'Mm Ss' with M = floor(e/60) and S = e mod 60 otherwise,
\* followed by the last tool of the record, made readable, when there is
\* one.
C25_StatusElapsed ==
    fnOut.fn = "status" =>
       LET e == SecondsOf(fnIn.ms)
           raw == fnIn.lastTool
       IN /\ fnOut.elapsed =
                IF e < 60
                THEN DecimalOf(e) \o <<"s">>
                ELSE DecimalOf(e \div 60) \o <<"m", " ">>
                     \o DecimalOf(e % 60) \o <<"s">>
          /\ fnOut.tool = <<>> <=> raw = <<>>
          /\ Squash(fnOut.tool) = Squash(raw)
          /\ IF \E i \in 1..Len(raw) : raw[i] = " "
             THEN fnOut.tool = raw
             ELSE ReadsAsWords(fnOut.tool)

\* 61001 ms after the turn began, with read_file as its last tool, /status
\* shows '1m 1s' and 'Read File'.
C25_Witness ==
    /\ fnIn.fn = "status" /\ fnIn.ms = 61001
    /\ fnOut.fn = "status"
    /\ fnOut.elapsed = <<"1", "m", " ", "1", "s">>
    /\ fnOut.tool = <<"R", "e", "a", "d", " ", "F", "i", "l", "e">>

ColonFree(x) ==
    /\ \A i \in 1..Len(x.channel) : x.channel[i] /= ":"
    /\ \A i \in 1..Len(x.peerId) : x.peerId[i] /= ":"

MaxWrites == 2
BoundIds == {SesId(1), SesId(2), <<"x">>}

SysRestOfPersist == <<cronRunning, cronExecs, obFile, obDrains, obSends,
                      waNow, waPending, waReceived, waFlushed, hCalls>>
PersistRest == <<turnVars, fnVars, SysRestOfPersist, nMsgs, turns, nCreated,
                 activeStreams, activeStreamsMeta, pendingQuestions, qTimers,
                 outbox, abortCalls, allowCfg, rejectCfg>>

\* map.set(key, id); await persist(): the write is begun with the map as it
\* is now.
BindingChange(k, id) ==
    /\ Cardinality(persistWrites) < MaxWrites
    /\ sessionMap' = [sessionMap EXCEPT ![k] = id]
    /\ persistWrites' = persistWrites \cup {sessionMap'}
    /\ UNCHANGED <<persistFile, PersistRest>>

\* A Bun.write call completes: the file holds what it was given.
WriteCompletes(w) ==
    /\ w \in persistWrites
    /\ persistFile' = w
    /\ persistWrites' = persistWrites \ {w}
    /\ UNCHANGED <<sessionMap, PersistRest>>

PersistNext ==
    \/ \E k \in SessionKeys, id \in BoundIds : BindingChange(k, id)
    \/ \E w \in persistWrites : WriteCompletes(w)

PersistSpec == CmdInit /\ [][PersistNext]_vars

\* C31: once every binding change has finished persisting, the persisted
\* session map equals the map in memory.
C31_FileEqualsMapWhenPersisted ==
    persistWrites = {} => persistFile = sessionMap

\* ------------------------------------------------------------- CronSpec
\* The cron scheduler: two enabled jobs whose schedules fire in any order.
MaxFirings == 3
Jobs == {"a", "b"}

CronRest == <<turnVars, routerVars, fnVars, persistFile, persistWrites,
              obFile, obDrains, obSends, waNow, waPending, waReceived,
              waFlushed, hCalls>>

CronExecIds == 1..Len(cronExecs)

\* The schedule of a job fires: executeJob up to its first await. A job
\* found in `running` is skipped.
CronFire(job) ==
    /\ Len(cronExecs) < MaxFirings
    /\ IF job \in cronRunning
       THEN /\ cronExecs' = Append(cronExecs, [job |-> job, pc |-> "skipped"])
            /\ UNCHANGED cronRunning
       ELSE /\ cronExecs' = Append(cronExecs, [job |-> job, pc |-> "creating"])
            /\ cronRunning' = cronRunning \cup {job}
    /\ UNCHANGED CronRest

\* executeJob leaves through its finally block.
CronLeave(e) ==
    /\ cronExecs' = [cronExecs EXCEPT ![e].pc = "done"]
    /\ cronRunning' = cronRunning \ {cronExecs[e].job}

\* client.session.create has answered; without data executeJob throws.
CronSessionCreated(e, ok) ==
    /\ e \in CronExecIds /\ cronExecs[e].pc = "creating"
    /\ IF ok
       THEN /\ cronExecs' = [cronExecs EXCEPT ![e].pc = "prompting"]
            /\ UNCHANGED cronRunning
       ELSE CronLeave(e)
    /\ UNCHANGED CronRest

\* promptStreaming has settled: with a text to report the result is
\* enqueued, otherwise (timeout, error, nothing to report) the job ends.
CronPromptSettled(e, report) ==
    /\ e \in CronExecIds /\ cronExecs[e].pc = "prompting"
    /\ IF report
       THEN /\ cronExecs' = [cronExecs EXCEPT ![e].pc = "enqueue"]
            /\ UNCHANGED cronRunning
       ELSE CronLeave(e)
    /\ UNCHANGED CronRest

\* outbox.enqueue has settled.
CronEnqueued(e) ==
    /\ e \in CronExecIds /\ cronExecs[e].pc = "enqueue"
    /\ CronLeave(e)
    /\ UNCHANGED CronRest

CronNext ==
    \/ \E job \in Jobs : CronFire(job)
    \/ \E e \in CronExecIds, ok \in BOOLEAN : CronSessionCreated(e, ok)
    \/ \E e \in CronExecIds, report \in BOOLEAN : CronPromptSettled(e, report)
    \/ \E e \in CronExecIds : CronEnqueued(e)

CronSpec == CmdInit /\ [][CronNext]_vars

\* C32: at no instant are two cron job executions in flight, their session
\* created and their prompt awaiting completion, be they firings of one job
\* or of different jobs.
C32_OneCronJobAtATime ==
    Cardinality({e \in CronExecIds : cronExecs[e].pc = "prompting"}) <= 1

\* ----------------------------------------------------------- OutboxSpec
\* The outbox drainer and one entry file. Every tick of the poll interval
\* starts a drain, whether or not an earlier drain has returned.
MaxAttempts == 2
MaxDrains == 3

OutboxRest == <<turnVars, routerVars, fnVars, persistFile, persistWrites,
                cronRunning, cronExecs, waNow, waPending, waReceived,
                waFlushed, hCalls>>

DrainIds == 1..Len(obDrains)

\* The entry was delivered or dead-lettered.
EntryFinal ==
    \/ obFile.dead
    \/ \E i \in 1..Len(obSends) : obSends[i].ok = "yes"

\* setInterval fires: drain() reads the entries and, when the entry file is
\* there and its adapter is connected, calls adapter.send.
DrainStart(connected) ==
    /\ Len(obDrains) < MaxDrains
    /\ IF obFile.pending /\ connected
       THEN /\ obSends' = Append(obSends, [ok |-> "inflight", afterFinal |-> EntryFinal])
            /\ obDrains' = Append(obDrains, [pc |-> "sending",
                                             attempts |-> obFile.attempts,
                                             send |-> Len(obSends) + 1])
       ELSE /\ obDrains' = Append(obDrains, [pc |-> "done", attempts |-> 0, send |-> 0])
            /\ UNCHANGED obSends
    /\ UNCHANGED <<obFile, OutboxRest>>

\* adapter.send settles: on success the drain goes on to delete the file,
\* on failure the catch block increments the attempts of the entry it read.
SendSettles(d, ok) ==
    /\ d \in DrainIds /\ obDrains[d].pc = "sending"
    /\ obSends' = [obSends EXCEPT ![obDrains[d].send].ok = IF ok THEN "yes" ELSE "no"]
    /\ obDrains' = [obDrains EXCEPT ![d] =
           IF ok THEN [@ EXCEPT !.pc = "deleting"]
                 ELSE [@ EXCEPT !.pc = "failing", !.attempts = @ + 1]]
    /\ UNCHANGED <<obFile, OutboxRest>>

\* After a delivery: the file, if it still exists, is unlinked.
DeleteDelivered(d) ==
    /\ d \in DrainIds /\ obDrains[d].pc = "deleting"
    /\ obFile' = [obFile EXCEPT !.pending = FALSE]
    /\ obDrains' = [obDrains EXCEPT ![d].pc = "done"]
    /\ UNCHANGED <<obSends, OutboxRest>>

\* After a failure: moveToDead renames the file (and throws when it is
\* gone), or the entry is written back with its attempts.
FailureRecorded(d) ==
    /\ d \in DrainIds /\ obDrains[d].pc = "failing"
    /\ IF obDrains[d].attempts >= MaxAttempts
       THEN obFile' = IF obFile.pending
                      THEN [obFile EXCEPT !.pending = FALSE, !.dead = TRUE]
                      ELSE obFile
       ELSE obFile' = [obFile EXCEPT !.pending = TRUE, !.attempts = obDrains[d].attempts]
    /\ obDrains' = [obDrains EXCEPT ![d].pc = "done"]
    /\ UNCHANGED <<obSends, OutboxRest>>

OutboxNext ==
    \/ \E connected \in BOOLEAN : DrainStart(connected)
    \/ \E d \in DrainIds, ok \in BOOLEAN : SendSettles(d, ok)
    \/ \E d \in DrainIds : DeleteDelivered(d)
    \/ \E d \in DrainIds : FailureRecorded(d)

OutboxSpec == CmdInit /\ [][OutboxNext]_vars

FailedDeliveries == Cardinality({i \in 1..Len(obSends) : obSends[i].ok = "no"})
DrainsReturned == \A d \in DrainIds : obDrains[d].pc = "done"

\* Each failed delivery has incremented the attempts of the pending entry.
AttemptsCountFailures ==
    (DrainsReturned /\ obFile.pending) => obFile.attempts = FailedDeliveries
\* The entry stays pending below maxAttempts failures and is dead-lettered
\* exactly when they reach maxAttempts.
DeadExactlyAtMaxAttempts ==
    DrainsReturned => (obFile.dead <=> FailedDeliveries >= MaxAttempts)
\* No delivery of a delivered or dead-lettered entry is attempted.
NoAttemptOnceFinal ==
    \A i \in 1..Len(obSends) : ~obSends[i].afterFinal

\* C33: each failed delivery of an outbox entry increments its attempts; the
\* entry stays pending while attempts are below maxAttempts and is
\* dead-lettered exactly when they reach it; a delivered or dead-lettered
\* entry is never attempted again.
C33_OutboxRetryAndDeadLetter ==
    AttemptsCountFailures /\ DeadExactlyAtMaxAttempts /\ NoAttemptOnceFinal

\* --------------------------------------------------------- DebounceSpec
\* The WhatsApp adapter while it is running: texts of two peers arrive at
\* times of a discrete clock, and every peer's timer flushes its batch.
DebounceMs == 2
WaMaxTime == 4
WaMaxTexts == 3
WaPeers == {"u1", "u3"}
WaTexts == {<<"a">>, <<"b">>, <<" ">>}

DebounceRest == <<turnVars, routerVars, fnVars, persistFile, persistWrites,
                  cronRunning, cronExecs, obFile, obDrains, obSends, hCalls>>

RECURSIVE JoinLines(_)
\* Array.prototype.join("\n")
JoinLines(texts) ==
    IF texts = <<>> THEN <<>>
    ELSE IF Len(texts) = 1 THEN Head(texts)
    ELSE Head(texts) \o <<"\n">> \o JoinLines(Tail(texts))

\* !combined.trim()
BlankText(s) == \A i \in 1..Len(s) : s[i] \in {" ", "\n"}

\* The time the timer of a pending item fires: debounce re-arms it at every
\* text.
TimerDeadlineOfFirst(item) == waReceived[item[1]].at + DebounceMs
TimerDeadline(item) == waReceived[item[Len(item)]].at + DebounceMs

\* Time passes, but not beyond a timer that is due.
WaTick ==
    /\ waNow < WaMaxTime
    /\ \A p \in WaPeers : waPending[p] /= <<>> => waNow < TimerDeadline(waPending[p])
    /\ waNow' = waNow + 1
    /\ UNCHANGED <<waPending, waReceived, waFlushed, DebounceRest>>

\* messages.upsert with a non-empty text of an admitted peer: debounce.
\* A pending item is a sequence of positions in the log of received texts.
debounce(peerId, text) ==
    /\ Len(waReceived) < WaMaxTexts
    /\ waReceived' = Append(waReceived, [peer |-> peerId, text |-> text, at |-> waNow])
    /\ waPending' = [waPending EXCEPT ![peerId] = Append(@, Len(waReceived) + 1)]
    /\ UNCHANGED <<waNow, waFlushed, DebounceRest>>

\* The timer of a peer fires: flush. A batch whose joined text is blank is
\* dropped, any other is handed to the handler.
flush(peerId) ==
    /\ waPending[peerId] /= <<>>
    /\ waNow = TimerDeadline(waPending[peerId])
    /\ LET item == waPending[peerId]
           combined == JoinLines([i \in 1..Len(item) |-> waReceived[item[i]].text])
       IN  waFlushed' = Append(waFlushed, [peer |-> peerId, ids |-> item, at |-> waNow,
                                           text |-> combined,
                                           delivered |-> ~BlankText(combined)])
    /\ waPending' = [waPending EXCEPT ![peerId] = <<>>]
    /\ UNCHANGED <<waNow, waReceived, DebounceRest>>

DebounceNext ==
    \/ WaTick
    \/ \E p \in WaPeers, text \in WaTexts : debounce(p, text)
    \/ \E p \in WaPeers : flush(p)

DebounceSpec == CmdInit /\ [][DebounceNext]_vars

\* The positions of the received texts of a peer, in arrival order.
ReceivedOf(p) == {i \in 1..Len(waReceived) : waReceived[i].peer = p}
\* The next text of the same peer.
NextOfPeer(i, j) ==
    /\ i < j /\ waReceived[i].peer = waReceived[j].peer
    /\ \A k \in (i + 1)..(j - 1) : waReceived[k].peer /= waReceived[i].peer
BatchesWith(i) ==
    {b \in 1..Len(waFlushed) : \E n \in 1..Len(waFlushed[b].ids) : waFlushed[b].ids[n] = i}
AllFlushed == \A p \in WaPeers : waPending[p] = <<>>
Increasing(ids) == \A m, n \in 1..Len(ids) : m < n => ids[m] < ids[n]

\* Texts of one peer less than debounceMs apart end in the same batch.
CloseTextsShareBatch ==
    \A i, j \in 1..Len(waReceived) :
        (NextOfPeer(i, j) /\ waReceived[j].at - waReceived[i].at < DebounceMs) =>
            \A b \in BatchesWith(i) : b \in BatchesWith(j)
\* A batch holds texts of its peer only, in arrival order, is flushed
\* debounceMs after its last text and carries the texts joined by newlines.
BatchShape ==
    \A b \in 1..Len(waFlushed) :
        LET B == waFlushed[b] IN
        /\ B.ids /= <<>> /\ Increasing(B.ids)
        /\ \A n \in 1..Len(B.ids) : waReceived[B.ids[n]].peer = B.peer
        /\ B.at = waReceived[B.ids[Len(B.ids)]].at + DebounceMs
        /\ B.text = JoinLines([n \in 1..Len(B.ids) |-> waReceived[B.ids[n]].text])
\* Every received text is in at most one batch, and in exactly one once the
\* timers have fired.
OneBatchEach ==
    \A i \in 1..Len(waReceived) :
        /\ Cardinality(BatchesWith(i)) <= 1
        /\ AllFlushed => Cardinality(BatchesWith(i)) = 1

\* C34 (as stated): once the timers have fired, every received text has been
\* delivered to the handler in exactly one batch.
C34_EveryTextDelivered ==
    AllFlushed =>
        \A i \in 1..Len(waReceived) :
            Cardinality({b \in BatchesWith(i) : waFlushed[b].delivered}) = 1

\* C34 (amended): texts of a peer less than debounceMs apart form one batch,
\* flushed debounceMs after the last and joined in arrival order; every text
\* is in exactly one batch; a batch is delivered unless its joined text is
\* blank, and then it is dropped.
C34_DebounceBatching ==
    /\ CloseTextsShareBatch
    /\ BatchShape
    /\ OneBatchEach
    /\ \A b \in 1..Len(waFlushed) :
           waFlushed[b].delivered <=>
               \E n \in 1..Len(waFlushed[b].ids) :
                   waReceived[waFlushed[b].ids[n]].text /= <<" ">>

\* A delivered batch of two texts of one peer, while the other peer's text
\* went into a batch of its own.
C34_Witness ==
    \E b, c \in 1..Len(waFlushed) :
        /\ waFlushed[b].delivered /\ Len(waFlushed[b].ids) = 2
        /\ waFlushed[b].text = <<"a", "\n", "b">>
        /\ waFlushed[c].peer /= waFlushed[b].peer

\* ------------------------------------------------- claims: C35 and C36
\* The Active Turn Record under the peer key of turn t is the one t set.
OwnsActive(t) == activeStreamsMeta[turns[t].pk].startedAt = t
\* The Pending Question Record under the peer key of turn t is t's.
OwnsQuestion(t) == pendingQuestions[turns[t].pk] = t

\* C35: the cleanup of a turn and the timeout callback of a question remove
\* an Active Turn Record or a Pending Question Record only when it is still
\* the record that turn or question created, and the timer of a removed
\* Pending Question Record is not left armed.
C35_RecordsRevalidated ==
    /\ [](\A t \in qTimers : OwnsQuestion(t))
    /\ [][/\ \A t \in TurnIds, o \in Outcomes :
               promptStreamingEnds(t, o) =>
                   /\ activeStreams'[turns[t].pk] /= activeStreams[turns[t].pk]
                          => OwnsActive(t)
                   /\ pendingQuestions'[turns[t].pk] /= pendingQuestions[turns[t].pk]
                          => OwnsQuestion(t)
          /\ \A t \in TurnIds :
               questionTimer(t) =>
                   (pendingQuestions'[turns[t].pk] /= pendingQuestions[turns[t].pk]
                        => OwnsQuestion(t))]_vars

\* ----------------------------------------------------------- AnswerSpec
\* A Slack channel private to user u2, answering the others with the
\* rejection message. u2 writes a prompt; u3, who is not on the list, writes
\* a plain text or a command into the same channel.
AnswerConfig ==
    [allow |-> [c \in {"whatsapp", "slack"} |-> {"u2"}],
     reject |-> [c \in {"whatsapp", "slack"} |-> "reject"]]

AnswerInbound ==
    { [channel |-> "slack", peerId |-> "c1", senderId |-> "u2",
       threadId |-> "t1", text |-> T_hi],
      [channel |-> "slack", peerId |-> "c1", senderId |-> "u3",
       threadId |-> "t1", text |-> T_hi],
      [channel |-> "slack", peerId |-> "c1", senderId |-> "u3",
       threadId |-> "t1", text |-> T_cancel] }

AnswerInit ==
    /\ TurnStart
    /\ progressOn = TRUE
    /\ RouterInit(AnswerConfig)
    /\ FnIdle
    /\ SysIdle

AnswerNext ==
    \/ \E msg \in AnswerInbound : handler(msg)
    \/ \E t \in TurnIds, ok \in BOOLEAN : SessionCreated(t, ok)
    \/ \E t \in TurnIds : BeginStream(t)
    \/ \E t \in TurnIds : onQuestion(t)
    \/ \E t \in TurnIds : waitForUserReply(t)
    \/ \E t \in TurnIds : questionTimer(t)
    \/ \E t \in TurnIds : questionReplied(t)
    \/ \E t \in TurnIds, o \in Outcomes : promptStreamingEnds(t, o)

AnswerSpec == AnswerInit /\ [][AnswerNext]_vars

C37_StreamEndTextDelivered ==
    [][/\ StreamEnd => (outcome' = "ok" /\ epc' = "returned")
       /\ (RouterFinish(TRUE, TRUE) /\ outcome = "ok") =>
              sent' = sent (+) SetToBag({<<"final", Reply>>})]_vars

\* C37 (amended): when the stream ends the run returns its text as a
\* success, deadline passed or not; the router sends that text as the final
\* message, or the empty-response placeholder when the text is empty.
C37_StreamEndIsSuccess ==
    [][/\ StreamEnd => (outcome' = "ok" /\ epc' = "returned")
       /\ (RouterFinish(TRUE, TRUE) /\ outcome = "ok") =>
              sent' = sent (+) SetToBag({IF Reply = <<>> THEN <<"empty", <<>>>>
                                         ELSE <<"final", Reply>>})]_vars

\* The stream ended after the deadline had passed, and the text gathered by
\* then went out as the final message.
C37_Witness ==
    /\ Done /\ aborted /\ outcome = "ok"
    /\ Reply /= <<>> /\ CopiesIn(<<"final", Reply>>, sent) = 1
    /\ SentOf("timeout") = 0

\* C38: a session.error without a sessionID, received before the deadline,
\* ends the run: with the aborted outcome when the error is a
\* MessageAbortedError, and with a failure otherwise.
C38_UntargetedErrorEndsRun ==
    [][\A n \in ErrNames, m \in ErrMsgs :
          (EvError(NoSession, n, m) /\ ~aborted) =>
              /\ epc' = "returned"
              /\ outcome' = IF n = "MessageAbortedError" THEN "aborted" ELSE "error"]_vars

\* C39: a running tool part that arrives inside the throttle window is
\* dropped: nothing is sent or queued for it and its call is not marked as
\* notified; a call becomes notified only by a running part of its own that
\* arrives once the window has passed; and the last tool kept for /status is
\* always a tool that was notified.
C39_ThrottledToolDropped ==
    /\ [](turnLastTool /= None =>
             \E c \in notifiedTools : turnLastTool = ToolTitle(c))
    /\ [][\A c \in CallIds :
            /\ (/\ EvToolPart(Target, c, "running")
                /\ ~aborted
                /\ now - lastToolNotifyTime < ToolThrottleMs) =>
                   /\ epc' = "loop"
                   /\ UNCHANGED <<notifiedTools, lastToolNotifyTime, sent,
                                  toolLog, turnLastTool>>
            /\ (c \in notifiedTools' /\ c \notin notifiedTools) =>
                   /\ EvToolPart(Target, c, "running")
                   /\ now - lastToolNotifyTime >= ToolThrottleMs
                   /\ toolLog' = Append(toolLog, <<c, now>>)]_vars

\* Inside the window opened by the notification of one call, with the other
\* call not notified: the state a dropped running part of the other call is
\* received in and leaves behind.
C39_Witness ==
    /\ epc = "loop" /\ turnActive /\ progressOn /\ ~aborted
    /\ Len(toolLog) = 1
    /\ notifiedTools = {toolLog[1][1]}
    /\ turnLastTool = ToolTitle(toolLog[1][1])
    /\ now - lastToolNotifyTime < ToolThrottleMs
    /\ SentOf("tool") = 1

\* ---------------------------------------------------------- HandlerSpec
\* The promise of the handler, as an adapter sees it: every call is followed
\* up to the point where its promise settles.
MaxHandlerCalls == 3

HandlerRest == <<turnVars, routerVars, fnVars, persistFile, persistWrites,
                 cronRunning, cronExecs, obFile, obDrains, obSends,
                 waNow, waPending, waReceived, waFlushed>>

HandlerCallIds == 1..Len(hCalls)

\* A variant of the handling of the error reply without its catch.
ErrorReplySettledUncaught(ok) == IF ok THEN "resolved" ELSE "rejected"

\* adapter.send(...).catch(() => {}): fulfilled whether the send was or not.
ErrorReplySettled(ok) == "resolved"

\* handler is called. With a question pending the answer is handed over and
\* the call returns; otherwise routeMessage is awaited.
HandlerCalled(pending) ==
    /\ Len(hCalls) < MaxHandlerCalls
    /\ hCalls' = Append(hCalls,
          [pc |-> IF pending THEN "settled" ELSE "routing",
           settled |-> IF pending THEN "resolved" ELSE "pending",
           thrown |-> 0, logged |-> 0])
    /\ UNCHANGED HandlerRest

\* routeMessage settles. A rejection is caught: it is logged, and the generic
\* error reply is sent when the channel has an adapter.
RouteSettled(h, ok, hasAdapter) ==
    /\ h \in HandlerCallIds /\ hCalls[h].pc = "routing"
    /\ hCalls' = [hCalls EXCEPT ![h] =
          IF ok THEN [@ EXCEPT !.pc = "settled", !.settled = "resolved"]
          ELSE IF hasAdapter
               THEN [@ EXCEPT !.pc = "replying", !.thrown = 1, !.logged = 1]
               ELSE [@ EXCEPT !.pc = "settled", !.settled = "resolved",
                              !.thrown = 1, !.logged = 1]]
    /\ UNCHANGED HandlerRest

\* The send of the generic error reply settles.
ErrorReplyDone(h, ok) ==
    /\ h \in HandlerCallIds /\ hCalls[h].pc = "replying"
    /\ hCalls' = [hCalls EXCEPT ![h] =
          [@ EXCEPT !.pc = "settled", !.settled = ErrorReplySettled(ok),
                    !.thrown = IF ok THEN @ ELSE @ + 1]]
    /\ UNCHANGED HandlerRest

HandlerNext ==
    \/ \E pending \in BOOLEAN : HandlerCalled(pending)
    \/ \E h \in HandlerCallIds, ok \in BOOLEAN, hasAdapter \in BOOLEAN :
          RouteSettled(h, ok, hasAdapter)
    \/ \E h \in HandlerCallIds, ok \in BOOLEAN : ErrorReplyDone(h, ok)

HandlerSpec == CmdInit /\ [][HandlerNext]_vars

\* C40 (as stated): the promise of the handler never rejects, and every
\* exception raised while a message is handled, the failure to send the
\* generic error reply included, is logged inside the handler.
C40_AllExceptionsLogged ==
    \A h \in HandlerCallIds :
        /\ hCalls[h].settled /= "rejected"
        /\ hCalls[h].pc = "settled" => hCalls[h].logged = hCalls[h].thrown

\* C40 (amended): the promise of the handler never rejects; an exception of
\* the message's routing is caught and logged, and a failure to send the
\* generic error reply is caught and dropped without a log entry.
C40_HandlerNeverRejects ==
    \A h \in HandlerCallIds :
        /\ hCalls[h].settled /= "rejected"
        /\ hCalls[h].pc = "settled" => hCalls[h].settled = "resolved"
        /\ hCalls[h].logged = IF hCalls[h].thrown >= 1 THEN 1 ELSE 0

\* A call whose routing threw and whose error reply could not be sent either
\* has settled.
C40_Witness ==
    \E h \in HandlerCallIds :
        hCalls[h].pc = "settled" /\ hCalls[h].thrown = 2

====
